---- MODULE Spec2Model ----
(***************************************************************************)
(* A model of the session / checked-call / pagination core of the          *)
(* otvetmailru client (src/otvetmailru/client.py).                          *)
(*                                                                         *)
(* Python values are encoded as follows:                                   *)
(*   - a dict is a function whose domain is its set of keys;               *)
(*   - an Optional value is a sequence: <<>> is None, <<v>> is the value v; *)
(*   - a list is a sequence;                                               *)
(*   - an exception is a record with a "kind" field.                       *)
(***************************************************************************)
EXTENDS Integers, Sequences, FiniteSets, TLC

VARIABLES
    \* ---- OtvetClient fields (client.py:84-90)
    auth_dict,            \* self._auth_dict
    user_id,              \* self.user_id
    is_adult,             \* self._is_adult
    categories,           \* self._categories (Optional: the number of categories)
    auto_renew_token,     \* self._auto_renew_token
    api_retry_attempts,   \* self._api_retry_attempts
    \* ---- one logical call of _call_checked (client.py:133-147)
    pc,                   \* position in _call_checked
    op,                   \* the arguments (method, params, direct) of the call
    attempt,              \* the index of the for loop of line 134
    result,               \* the local variable result (Optional)
    exc,                  \* the exception that left _call_checked (Optional)
    log,                  \* the raw requests sent by this call, in order
    sleeps,               \* the number of time.sleep(1) of this call
    bootstraps,           \* the number of _load_main_page() of this call
    calls,                \* the number of logical calls started so far
    \* ---- one generator of iterate_pages (client.py:59-65)
    it_pc,                \* "none", "start" (created), "yielded" (at line 63), "done"
    it_step,              \* step
    it_p,                 \* p, the value of itertools.count(0, step)
    it_data,              \* data
    it_fetches,           \* the calls get_page(p) made, with the page each returned
    it_yields,            \* the pages yielded, in order
    \* ---- one generator of iterate_questions / iterate_best_questions (client.py:496-531)
    q_pc,                 \* "none", "start", "yielded" (at line 511 / 528), "done", "raised"
    q_args,               \* which of the two, and its arguments
    q_p,                  \* p, the value of itertools.count(step, step)
    q_data,               \* data
    q_lastid,             \* lastid (Optional)
    q_requests,           \* the page requests made, with the page each returned
    q_yields,             \* the pages yielded, in order
    q_exc,                \* the exception that ended the generator (Optional)
    \* ---- one generator of iterate_new_questions (client.py:533-559)
    n_pc,                 \* "none", "start", "yielded" (at line 551 / 559), "loop" (at line 552), "raised"
    n_args,               \* its arguments
    n_listing,            \* the server's list of open questions: ids base+1 .. top
    now,                  \* time.time(), an integer clock
    n_last_call,          \* last_call
    n_lastid,             \* lastid (Optional)
    n_ticks,              \* the fetches made, in order, with what each one did
    n_yields,             \* the batches yielded, in order
    n_exc,                \* the exception that ended the generator (Optional)
    \* ---- the public operations made on one client, one after the other
    s_pc,                 \* "off", "idle", or the position in get_questions_page
    s_last,               \* what the last public operation did
    cookie_mpop,          \* self._session.cookies.get('Mpop') (Optional)
    \* ---- one generator of iterate_answers (client.py:574-608)
    a_pc,                 \* "none", "start", "paged" (in the loop of line 593), "poll" (in that of 602), "done", "raised"
    a_args,               \* its arguments
    a_total,              \* the answers the question has on the server: positions 1 .. a_total
    a_best,               \* the position of the answer chosen as the best (Optional)
    a_question,           \* question: its answers and its answer_count
    a_offset,             \* offset
    a_requests,           \* the requests made, in order, with the answers each returned
    a_yields,             \* the lists yielded, in order
    \* ---- iterate_votes (client.py:610-617), a generator of iterate_pages
    v_option,             \* option
    \* ---- two checked calls run by two threads on one client (client.py:94-147)
    t_pc,                 \* the position of each call
    t_page,               \* main_page of each call's _load_main_page: the number of the fetch
    t_token,              \* token, the local variable of each call's _load_main_page
    t_renewals,           \* the number of _load_main_page() of each call
    t_sent,               \* the requests sent by the two calls, in order
    t_fetches,            \* the number of fetches of the main page
    t_overlap,            \* a page was fetched while the other call had yet to read its cookie
    cookie_ot,            \* self._session.cookies['ot']
    \* ---- rates._fill_rates (rates.py:24-33)
    r_pc,                 \* "none", "loop", "done"
    r_table,              \* _RATES
    r_i,                  \* the rows of _RATES[::-1] still to come
    r_rate,               \* the local variable rate (Optional: unbound at first)
    r_rates               \* rates

clientVars == <<auth_dict, user_id, is_adult, categories, auto_renew_token, api_retry_attempts>>
callVars == <<pc, op, attempt, result, exc, log, sleeps, bootstraps, calls>>
pagesVars == <<it_pc, it_step, it_p, it_data, it_fetches, it_yields>>
questionsVars == <<q_pc, q_args, q_p, q_data, q_lastid, q_requests, q_yields, q_exc>>
newVars == <<n_pc, n_args, n_listing, now, n_last_call, n_lastid, n_ticks, n_yields, n_exc>>
sessionVars == <<s_pc, s_last, cookie_mpop>>
answersVars == <<a_pc, a_args, a_total, a_best, a_question, a_offset, a_requests, a_yields>>
votesVars == <<v_option>>
threadVars == <<t_pc, t_page, t_token, t_renewals, t_sent, t_fetches, t_overlap, cookie_ot>>
ratesVars == <<r_pc, r_table, r_i, r_rate, r_rates>>

----------------------------------------------------------------------------
(* Bounds of the model *)

MaxRetry == 2         \* api_retry_attempts ranges over 0..MaxRetry
MaxCalls == 2         \* logical calls made on one client
MaxStep == 2          \* step ranges over 1..MaxStep
MaxFetches == 3       \* pages fetched by one traversal

(* Python values *)

None == <<>>
Some(v) == <<v>>
EmptyDict == [k \in {} |-> 0]

\* {**a, **b}: the keys of both, b winning
Merge(a, b) == [k \in DOMAIN a \cup DOMAIN b |-> IF k \in DOMAIN b THEN b[k] ELSE a[k]]

\* d.get(key, default)
Get(d, key, default) == IF key \in DOMAIN d THEN d[key] ELSE default

----------------------------------------------------------------------------
(* The environment: what the server and the transport may answer *)

Tokens == {1, 2}
Salts == {1, 2}
UserIds == {1, 2}

\* The main page as _load_main_page reads it: whether the GET fails, whether
\* the CATEGORIES marker is there, the 'ot' cookie, and the three markers
\* the regular expressions of lines 100-103 look for.
MainPages ==
    [fetch : {"ok"}, cats : {None, Some(0), Some(1)}, ot : {None} \cup {Some(t) : t \in Tokens},
     salt : {None} \cup {Some(s) : s \in Salts}, id : {None} \cup {Some(u) : u \in UserIds},
     adult : {None, Some(TRUE), Some(FALSE)}]
    \cup
    [fetch : {"ConnectionError"}, cats : {None}, ot : {None}, salt : {None}, id : {None},
     adult : {None}]

\* JSON bodies of the API: 'status' may be absent, 'error' may be absent.
Responses ==
    { [data |-> 1],
      [status |-> 200, data |-> 1],
      [status |-> 399, error |-> "invalid_token"],
      [error |-> "invalid_token"],
      [status |-> 400, error |-> "access_denied"],
      [status |-> 401, error |-> "invalid_token"],
      [status |-> 500] }

\* What one raw HTTP request may end in.
Outcomes ==
    { [kind |-> "ConnectionError"], [kind |-> "OtherError"] }
    \cup { [kind |-> "response", body |-> r] : r \in Responses }

\* The call sites: a method of the generic endpoint and a direct URL.
Ops ==
    { [method |-> "/v2/questlist", params |-> [n |-> 20], direct |-> FALSE],
      [method |-> "https://suggests.go.mail.ru/sg_otvet_u", params |-> [q |-> "text"],
       direct |-> TRUE] }

----------------------------------------------------------------------------
(* Exceptions *)

ConnectionError == [kind |-> "ConnectionError"]   \* requests.exceptions.ConnectionError
OtherError == [kind |-> "OtherError"]             \* any other error of the transport or of .json()
AttributeError == [kind |-> "AttributeError"]     \* re.search(...) gave None, .group(1) on it
TypeError == [kind |-> "TypeError"]
IndexError == [kind |-> "IndexError"]

\* The parameters OtvetAPIError.__init__ requires besides self (response,
\* localized_message: neither has a default) and the arguments the only
\* raise site, _check_response, passes (response).
OtvetAPIError_required == 2
OtvetAPIError_passed == 1

\* raise error.OtvetAPIError(response): what is raised. Python raises
\* TypeError from the constructor call when a required argument is missing.
raise_OtvetAPIError(response) ==
    IF OtvetAPIError_passed = OtvetAPIError_required
    THEN [kind |-> "OtvetAPIError", response |-> response]
    ELSE TypeError

----------------------------------------------------------------------------
(* Session state *)

session == [auth_dict |-> auth_dict, user_id |-> user_id, is_adult |-> is_adult,
            categories |-> categories]

\* not self._categories: None, or a Categories container of length 0
categories_falsy == categories = None \/ categories = Some(0)

\* A variant of _load_main_page that stores the token as soon as the cookie
\* is read, before the salt and id markers are looked for.
_load_main_page_token_first(page) ==
    LET withCats == IF categories_falsy
                    THEN [session EXCEPT !.categories = page.cats]
                    ELSE session
        withToken == [withCats EXCEPT !.auth_dict = Merge(auth_dict, [token |-> page.ot[1]])]
        withUser == [withCats EXCEPT !.user_id = page.id,
                                     !.auth_dict = [token |-> page.ot[1], salt |-> page.salt[1]]]
    IN  IF page.fetch # "ok"
        THEN [after |-> session, raised |-> Some(ConnectionError)]
        ELSE IF categories_falsy /\ page.cats = None
        THEN [after |-> session, raised |-> Some(AttributeError)]
        ELSE IF page.ot # None
        THEN IF page.salt = None \/ page.id = None
             THEN [after |-> withToken, raised |-> Some(AttributeError)]
             ELSE IF page.adult = None
             THEN [after |-> withUser, raised |-> Some(AttributeError)]
             ELSE [after |-> [withUser EXCEPT !.is_adult = page.adult], raised |-> None]
        ELSE [after |-> [withCats EXCEPT !.user_id = None, !.auth_dict = EmptyDict,
                                         !.is_adult = None],
              raised |-> None]

\* A variant of _load_main_page whose else branch keeps user_id.
_load_main_page_keeps_user_id(page) ==
    LET withCats == IF categories_falsy
                    THEN [session EXCEPT !.categories = page.cats]
                    ELSE session
        withUser == [withCats EXCEPT !.user_id = page.id,
                                     !.auth_dict = [token |-> page.ot[1], salt |-> page.salt[1]]]
    IN  IF page.fetch # "ok"
        THEN [after |-> session, raised |-> Some(ConnectionError)]
        ELSE IF categories_falsy /\ page.cats = None
        THEN [after |-> session, raised |-> Some(AttributeError)]
        ELSE IF page.ot # None
        THEN IF page.salt = None \/ page.id = None
             THEN [after |-> withCats, raised |-> Some(AttributeError)]
             ELSE IF page.adult = None
             THEN [after |-> withUser, raised |-> Some(AttributeError)]
             ELSE [after |-> [withUser EXCEPT !.is_adult = page.adult], raised |-> None]
        ELSE [after |-> [withCats EXCEPT !.auth_dict = EmptyDict, !.is_adult = None],
              raised |-> None]

\* A variant of _load_main_page whose else branch keeps _is_adult.
_load_main_page_keeps_is_adult(page) ==
    LET withCats == IF categories_falsy
                    THEN [session EXCEPT !.categories = page.cats]
                    ELSE session
        withUser == [withCats EXCEPT !.user_id = page.id,
                                     !.auth_dict = [token |-> page.ot[1], salt |-> page.salt[1]]]
    IN  IF page.fetch # "ok"
        THEN [after |-> session, raised |-> Some(ConnectionError)]
        ELSE IF categories_falsy /\ page.cats = None
        THEN [after |-> session, raised |-> Some(AttributeError)]
        ELSE IF page.ot # None
        THEN IF page.salt = None \/ page.id = None
             THEN [after |-> withCats, raised |-> Some(AttributeError)]
             ELSE IF page.adult = None
             THEN [after |-> withUser, raised |-> Some(AttributeError)]
             ELSE [after |-> [withUser EXCEPT !.is_adult = page.adult], raised |-> None]
        ELSE [after |-> [withCats EXCEPT !.user_id = None, !.auth_dict = EmptyDict],
              raised |-> None]

\* _load_main_page on the page the server gives: the fields afterwards and
\* the exception raised, if any. The statements run in the order of the
\* source, so an exception keeps what the statements before it assigned.
_load_main_page(page) ==
    LET withCats == IF categories_falsy
                    THEN [session EXCEPT !.categories = page.cats]
                    ELSE session
        withUser == [withCats EXCEPT !.user_id = page.id,
                                     !.auth_dict = [token |-> page.ot[1], salt |-> page.salt[1]]]
    IN  IF page.fetch # "ok"
        THEN [after |-> session, raised |-> Some(ConnectionError)]
        ELSE IF categories_falsy /\ page.cats = None
        THEN [after |-> session, raised |-> Some(AttributeError)]
        ELSE IF page.ot # None
        THEN IF page.salt = None \/ page.id = None
             THEN [after |-> withCats, raised |-> Some(AttributeError)]
             ELSE IF page.adult = None
             THEN [after |-> withUser, raised |-> Some(AttributeError)]
             ELSE [after |-> [withUser EXCEPT !.is_adult = page.adult], raised |-> None]
        ELSE [after |-> [withCats EXCEPT !.user_id = None, !.auth_dict = EmptyDict,
                                         !.is_adult = None],
              raised |-> None]

----------------------------------------------------------------------------
(* Checked call *)

ApiUrl == "https://otvet.mail.ru/api/"

\* A variant of _call_api that merges the credentials once per logical call:
\* a later request of the call carries those of its first request.
_call_api_stale(method, params, direct) ==
    LET creds == IF log = <<>> THEN auth_dict ELSE log[1].auth
        real_params == Merge(params, creds)
    IN  IF direct
        THEN [verb |-> "GET", url |-> method, params |-> real_params]
        ELSE [verb |-> "POST", url |-> ApiUrl, params |-> Merge(real_params, "__urlp" :> method)]

\* _call_api up to the moment the request leaves: the request that is sent.
_call_api(method, params, direct) ==
    LET real_params == Merge(params, auth_dict)
    IN  IF direct
        THEN [verb |-> "GET", url |-> method, params |-> real_params]
        ELSE [verb |-> "POST", url |-> ApiUrl, params |-> Merge(real_params, "__urlp" :> method)]

\* A variant of status_of that takes an absent status for a failure.
status_of_absent_fails(response) == Get(response, "status", 400)

\* int(response.get('status', 200))
status_of(response) == Get(response, "status", 200)

\* A variant of renews that renews whether or not auto_renew_token is on.
renews_without_switch(response) ==
    /\ "error" \in DOMAIN response
    /\ response["error"] = "invalid_token"

\* the condition of line 128
renews(response) ==
    /\ "error" \in DOMAIN response
    /\ response["error"] = "invalid_token"
    /\ auto_renew_token

\* _check_response(response, allow_retry): the value returned or the
\* exception raised, the session fields afterwards and whether
\* _load_main_page ran. page is the main page the server would give.
_check_response(response, allow_retry, page) ==
    IF status_of(response) < 400
    THEN [ret |-> FALSE, raised |-> None, after |-> session, loaded |-> FALSE]
    ELSE IF allow_retry /\ renews(response)
    THEN LET l == _load_main_page(page)
         IN  [ret |-> TRUE, raised |-> l.raised, after |-> l.after, loaded |-> TRUE]
    ELSE [ret |-> FALSE, raised |-> Some(raise_OtvetAPIError(response)), after |-> session,
          loaded |-> FALSE]

\* The pages to consider in a step that runs _check_response: the server's
\* pages when the step bootstraps, one (unread) page otherwise.
PagesFor(response, allow_retry) ==
    IF status_of(response) >= 400 /\ allow_retry /\ renews(response)
    THEN MainPages
    ELSE {CHOOSE p \in MainPages : p.fetch # "ok"}

\* A variant of in_loop with one iteration too many.
in_loop_one_more == attempt <= api_retry_attempts

\* for _ in range(self._api_retry_attempts): the loop has an iteration left
in_loop == attempt < api_retry_attempts

\* A variant of allow_retry_second that lets the second inspection renew too.
allow_retry_second_renews == TRUE

\* allow_retry of the two calls of _check_response (lines 144 and 146)
allow_retry_first == TRUE
allow_retry_second == FALSE

Sent(phase, outcome) ==
    [phase |-> phase, request |-> _call_api(op.method, op.params, op.direct),
     outcome |-> outcome, auth |-> auth_dict]

\* A caller invokes _call_checked(method, params, direct).
StartCall ==
    /\ pc = "idle"
    /\ calls < MaxCalls
    /\ \E o \in Ops : op' = o
    /\ pc' = "loop"
    /\ attempt' = 0
    /\ result' = None
    /\ exc' = None
    /\ log' = <<>>
    /\ sleeps' = 0
    /\ bootstraps' = 0
    /\ calls' = calls + 1
    /\ UNCHANGED clientVars
    /\ UNCHANGED <<pagesVars, questionsVars, newVars, sessionVars, answersVars, votesVars, threadVars, ratesVars>>

\* A variant of GuardedAttempt that sleeps after a received response too.
GuardedAttempt_sleeping ==
    /\ pc = "loop"
    /\ in_loop
    /\ \E o \in Outcomes :
        /\ log' = Append(log, Sent("guarded", o))
        /\ CASE o.kind = "response" ->
                    /\ result' = Some(o.body)
                    /\ pc' = "check"
                    /\ sleeps' = sleeps + 1
                    /\ UNCHANGED <<attempt, exc>>
             [] o.kind = "ConnectionError" ->
                    /\ sleeps' = sleeps + 1
                    /\ attempt' = attempt + 1
                    /\ UNCHANGED <<pc, result, exc>>
             [] OTHER ->
                    /\ exc' = Some(OtherError)
                    /\ pc' = "raised"
                    /\ UNCHANGED <<attempt, sleeps, result>>
    /\ UNCHANGED <<op, bootstraps, calls>>
    /\ UNCHANGED clientVars
    /\ UNCHANGED <<pagesVars, questionsVars, newVars, sessionVars, answersVars, votesVars, threadVars, ratesVars>>

\* One iteration of the for loop (lines 134-141).
GuardedAttempt ==
    /\ pc = "loop"
    /\ in_loop
    /\ \E o \in Outcomes :
        /\ log' = Append(log, Sent("guarded", o))
        /\ CASE o.kind = "response" ->
                    /\ result' = Some(o.body)
                    /\ pc' = "check"
                    /\ UNCHANGED <<attempt, sleeps, exc>>
             [] o.kind = "ConnectionError" ->
                    /\ sleeps' = sleeps + 1
                    /\ attempt' = attempt + 1
                    /\ UNCHANGED <<pc, result, exc>>
             [] OTHER ->
                    /\ exc' = Some(OtherError)
                    /\ pc' = "raised"
                    /\ UNCHANGED <<attempt, sleeps, result>>
    /\ UNCHANGED <<op, bootstraps, calls>>
    /\ UNCHANGED clientVars
    /\ UNCHANGED <<pagesVars, questionsVars, newVars, sessionVars, answersVars, votesVars, threadVars, ratesVars>>

\* The else clause of the for loop (lines 142-143): the loop ran out.
UnguardedAttempt ==
    /\ pc = "loop"
    /\ ~in_loop
    /\ \E o \in Outcomes :
        /\ log' = Append(log, Sent("unguarded", o))
        /\ IF o.kind = "response"
           THEN /\ result' = Some(o.body)
                /\ pc' = "check"
                /\ exc' = exc
           ELSE /\ exc' = Some([kind |-> o.kind])
                /\ pc' = "raised"
                /\ result' = result
    /\ UNCHANGED <<op, attempt, sleeps, bootstraps, calls>>
    /\ UNCHANGED clientVars
    /\ UNCHANGED <<pagesVars, questionsVars, newVars, sessionVars, answersVars, votesVars, threadVars, ratesVars>>

\* if self._check_response(result, True): (line 144)
CheckResponse ==
    /\ pc = "check"
    /\ \E page \in PagesFor(result[1], allow_retry_first) :
        LET c == _check_response(result[1], allow_retry_first, page)
        IN  /\ auth_dict' = c.after.auth_dict
            /\ user_id' = c.after.user_id
            /\ is_adult' = c.after.is_adult
            /\ categories' = c.after.categories
            /\ bootstraps' = bootstraps + (IF c.loaded THEN 1 ELSE 0)
            /\ exc' = c.raised
            /\ pc' = IF c.raised # None THEN "raised"
                     ELSE IF c.ret THEN "reissue" ELSE "returned"
    /\ UNCHANGED <<op, attempt, result, log, sleeps, calls>>
    /\ UNCHANGED <<auto_renew_token, api_retry_attempts>>
    /\ UNCHANGED <<pagesVars, questionsVars, newVars, sessionVars, answersVars, votesVars, threadVars, ratesVars>>

\* A variant of Reissue that tries again after a connection error.
Reissue_retried ==
    /\ pc = "reissue"
    /\ \E o \in Outcomes :
        /\ log' = Append(log, Sent("reissue", o))
        /\ CASE o.kind = "response" ->
                    /\ result' = Some(o.body)
                    /\ pc' = "recheck"
                    /\ exc' = exc
             [] o.kind = "ConnectionError" /\ Len(log) < 8 ->
                    UNCHANGED <<pc, result, exc>>
             [] OTHER ->
                    /\ exc' = Some([kind |-> o.kind])
                    /\ pc' = "raised"
                    /\ result' = result
    /\ UNCHANGED <<op, attempt, sleeps, bootstraps, calls>>
    /\ UNCHANGED clientVars
    /\ UNCHANGED <<pagesVars, questionsVars, newVars, sessionVars, answersVars, votesVars, threadVars, ratesVars>>

\* result = self._call_api(method, params, direct) (line 145)
Reissue ==
    /\ pc = "reissue"
    /\ \E o \in Outcomes :
        /\ log' = Append(log, Sent("reissue", o))
        /\ IF o.kind = "response"
           THEN /\ result' = Some(o.body)
                /\ pc' = "recheck"
                /\ exc' = exc
           ELSE /\ exc' = Some([kind |-> o.kind])
                /\ pc' = "raised"
                /\ result' = result
    /\ UNCHANGED <<op, attempt, sleeps, bootstraps, calls>>
    /\ UNCHANGED clientVars
    /\ UNCHANGED <<pagesVars, questionsVars, newVars, sessionVars, answersVars, votesVars, threadVars, ratesVars>>

\* self._check_response(result, False); return result (lines 146-147)
Recheck ==
    /\ pc = "recheck"
    /\ \E page \in PagesFor(result[1], allow_retry_second) :
        LET c == _check_response(result[1], allow_retry_second, page)
        IN  /\ auth_dict' = c.after.auth_dict
            /\ user_id' = c.after.user_id
            /\ is_adult' = c.after.is_adult
            /\ categories' = c.after.categories
            /\ bootstraps' = bootstraps + (IF c.loaded THEN 1 ELSE 0)
            /\ exc' = c.raised
            /\ pc' = IF c.raised # None THEN "raised" ELSE "returned"
    /\ UNCHANGED <<op, attempt, result, log, sleeps, calls>>
    /\ UNCHANGED <<auto_renew_token, api_retry_attempts>>
    /\ UNCHANGED <<pagesVars, questionsVars, newVars, sessionVars, answersVars, votesVars, threadVars, ratesVars>>

\* The call is over: its frame is gone, the caller goes on to its next call.
Finish ==
    /\ pc \in {"returned", "raised"}
    /\ calls < MaxCalls
    /\ pc' = "idle"
    /\ attempt' = 0
    /\ result' = None
    /\ exc' = None
    /\ log' = <<>>
    /\ sleeps' = 0
    /\ bootstraps' = 0
    /\ UNCHANGED <<op, calls>>
    /\ UNCHANGED clientVars
    /\ UNCHANGED <<pagesVars, questionsVars, newVars, sessionVars, answersVars, votesVars, threadVars, ratesVars>>

----------------------------------------------------------------------------
(* The server's listings *)

\* The ids of the items of a listing.
Items == {1, 2}

\* The pages a server that returns at most n items per page may return.
PagesUpTo(n) == UNION { [1..l -> Items] : l \in 0..n }

----------------------------------------------------------------------------
(* The generic pagination engine: iterate_pages(get_page, step) *)

\* A variant of is_short that also ends the traversal after a full page.
is_short_or_full(data, step) == Len(data) <= step

\* len(data) < step (line 64)
is_short(data, step) == Len(data) < step

\* The consumer asks for the next page and the generator calls get_page(p):
\* at its first resumption with p = 0, later, resumed at the yield of a page
\* that was not short, with the next value of itertools.count(0, step).
\* A page that is not empty is yielded; an empty one ends the generator.
FetchPage ==
    /\ \/ it_pc = "start"
       \/ it_pc = "yielded" /\ ~is_short(it_data, it_step)
    /\ Len(it_fetches) < MaxFetches
    /\ LET p == IF it_pc = "start" THEN 0 ELSE it_p + it_step
       IN  \E data \in PagesUpTo(it_step) :
            /\ it_p' = p
            /\ it_data' = data
            /\ it_fetches' = Append(it_fetches, [p |-> p, data |-> data])
            /\ IF data # <<>>
               THEN /\ it_yields' = Append(it_yields, data)
                    /\ it_pc' = "yielded"
               ELSE \* an empty page is short, step being at least 1
                    /\ it_yields' = it_yields
                    /\ it_pc' = "done"
    /\ UNCHANGED it_step
    /\ UNCHANGED <<clientVars, callVars, questionsVars, newVars, sessionVars, answersVars, votesVars, threadVars, ratesVars>>

\* The consumer asks for the next page and the generator, resumed at the
\* yield of a short page, returns (line 65).
EndAfterShortPage ==
    /\ it_pc = "yielded"
    /\ is_short(it_data, it_step)
    /\ it_pc' = "done"
    /\ UNCHANGED <<it_step, it_p, it_data, it_fetches, it_yields>>
    /\ UNCHANGED <<clientVars, callVars, questionsVars, newVars, sessionVars, answersVars, votesVars, threadVars, ratesVars>>

\* A variant of IteratePages whose new generator goes on where the last
\* one was.
IteratePages_resumed ==
    /\ it_pc \in {"yielded", "done"}
    /\ it_pc' = "start"
    /\ it_step' \in 1..MaxStep
    /\ UNCHANGED <<it_p, it_data, it_fetches, it_yields>>
    /\ UNCHANGED <<clientVars, callVars, questionsVars, newVars, sessionVars, answersVars, votesVars, threadVars, ratesVars>>

\* iterate_pages(get_page, step) is called again, the generator at hand left
\* where it is: a generator function called anew gives a new generator,
\* whose locals are its own; it has not run.
IteratePages ==
    /\ it_pc \in {"yielded", "done"}
    /\ it_pc' = "start"
    /\ it_step' \in 1..MaxStep
    /\ it_p' = 0
    /\ it_data' = <<>>
    /\ it_fetches' = <<>>
    /\ it_yields' = <<>>
    /\ UNCHANGED <<clientVars, callVars, questionsVars, newVars, sessionVars, answersVars, votesVars, threadVars, ratesVars>>

----------------------------------------------------------------------------
(* iterate_votes: the votes for one poll option *)

\* The poll options voted for.
Options == {1, 2}

\* get_votes_page(option, step, offset) up to its call of _call_checked
\* (lines 277-278): the method and the parameters of the request.
get_votes_page(option, step, offset) ==
    [method |-> "/v2/whovoted", params |-> [optid |-> option, n |-> step, p |-> offset]]

\* The get_page that iterate_votes hands to iterate_pages (line 617):
\* lambda p: self.get_votes_page(option, p, step).
votes_page(option, step, p) == get_votes_page(option, p, step)

\* The pages the server may answer a request with: at most n votes; what it
\* answers when asked for 0 votes is its own business.
VotePages(request) ==
    PagesUpTo(IF request.params.n = 0 THEN MaxStep ELSE request.params.n)

\* FetchPage for the generator of iterate_votes: get_page(p) is the request
\* of votes_page.
VotesFetch ==
    /\ \/ it_pc = "start"
       \/ it_pc = "yielded" /\ ~is_short(it_data, it_step)
    /\ Len(it_fetches) < MaxFetches
    /\ LET p == IF it_pc = "start" THEN 0 ELSE it_p + it_step
           request == votes_page(v_option, it_step, p)
       IN  \E data \in VotePages(request) :
            /\ it_p' = p
            /\ it_data' = data
            /\ it_fetches' = Append(it_fetches, [p |-> p, data |-> data, request |-> request])
            /\ IF data # <<>>
               THEN /\ it_yields' = Append(it_yields, data)
                    /\ it_pc' = "yielded"
               ELSE /\ it_yields' = it_yields
                    /\ it_pc' = IF is_short(data, it_step) THEN "done" ELSE "yielded"
    /\ UNCHANGED <<it_step, v_option>>
    /\ UNCHANGED <<clientVars, callVars, questionsVars, newVars, sessionVars, answersVars, threadVars, ratesVars>>

----------------------------------------------------------------------------
(* The anchored listings: iterate_questions and iterate_best_questions *)

\* utils.update_not_none(params, changes): changes holds Optional values
update_not_none(params, changes) ==
    Merge(params, [k \in {c \in DOMAIN changes : changes[c] # None} |-> changes[k][1]])

\* get_questions_page up to its call of _call_checked: the method and the
\* parameters of the request. state is the value of the normalized state,
\* category the urlname of the normalized category (both Optional).
get_questions_page(state, category, step, offset, lastid, category_exclude, only_leaders) ==
    LET base == IF state # None THEN [state |-> state[1]] ELSE EmptyDict
        excl == IF category_exclude # "" \/ (state = Some("A") /\ category = None /\ ~only_leaders)
                THEN Merge(base, [category_exclude |-> category_exclude])
                ELSE base
    IN  [method |-> IF only_leaders THEN "/v2/leadqst" ELSE "/v2/questlist",
         params |-> update_not_none(excl, [cat |-> category, p |-> offset, lastid |-> lastid,
                                           n |-> step])]

\* get_best_questions_page up to its call of _call_checked.
get_best_questions_page(category, step, offset, lastid) ==
    [method |-> "/v2/qstrating",
     params |-> update_not_none([state |-> "B", n |-> step],
                                [cat |-> category, p |-> offset, lastid |-> lastid])]

\* The page request of the traversal a: iterate_questions passes step,
\* offset and lastid on to get_questions_page, iterate_best_questions to
\* get_best_questions_page.
page_request(a, offset, lastid) ==
    IF a.kind = "questions"
    THEN get_questions_page(a.state, a.category, Some(a.step), offset, lastid,
                            a.category_exclude, a.only_leaders)
    ELSE get_best_questions_page(a.category, a.step, offset, lastid)

\* The traversals considered.
QuestionArgs ==
    [kind : {"questions"}, state : {Some("A")}, category : {None, Some("auto")},
     category_exclude : {""}, only_leaders : BOOLEAN, step : 1..MaxStep]
    \cup
    [kind : {"best"}, state : {None}, category : {None, Some("auto")},
     category_exclude : {""}, only_leaders : {FALSE}, step : 1..MaxStep]

\* A variant of ends_listing that ends the traversal at a short page.
ends_listing_when_short(data, step) == Len(data) < step

\* if not data: return (lines 514 and 530)
ends_listing(data, step) == data = <<>>

\* The first resumption: the first page is fetched without offset and
\* anchor, lastid = data[0].id (IndexError on an empty page), and the page
\* is yielded (lines 507-511 and 525-528).
FirstPage ==
    /\ q_pc = "start"
    /\ LET req == page_request(q_args, None, None)
       IN  \E data \in PagesUpTo(q_args.step) :
            /\ q_requests' = Append(q_requests, [method |-> req.method, params |-> req.params,
                                                  data |-> data])
            /\ q_data' = data
            /\ IF data = <<>>
               THEN /\ q_exc' = Some(IndexError)
                    /\ q_pc' = "raised"
                    /\ UNCHANGED <<q_lastid, q_p, q_yields>>
               ELSE /\ q_lastid' = Some(data[1])
                    /\ q_p' = q_args.step
                    /\ q_yields' = Append(q_yields, data)
                    /\ q_pc' = "yielded"
                    /\ q_exc' = q_exc
    /\ UNCHANGED q_args
    /\ UNCHANGED <<clientVars, callVars, pagesVars, newVars, sessionVars, answersVars, votesVars, threadVars, ratesVars>>

\* A variant of NextPage whose anchor follows the page fetched last.
NextPage_moving_anchor ==
    /\ q_pc = "yielded"
    /\ Len(q_requests) < MaxFetches
    /\ LET req == page_request(q_args, Some(q_p), q_lastid)
       IN  \E data \in PagesUpTo(q_args.step) :
            /\ q_requests' = Append(q_requests, [method |-> req.method, params |-> req.params,
                                                  data |-> data])
            /\ q_data' = data
            /\ IF ends_listing(data, q_args.step)
               THEN /\ q_pc' = "done"
                    /\ UNCHANGED <<q_p, q_yields, q_lastid>>
               ELSE /\ q_p' = q_p + q_args.step
                    /\ q_yields' = Append(q_yields, data)
                    /\ q_lastid' = Some(data[1])
                    /\ q_pc' = "yielded"
    /\ UNCHANGED <<q_args, q_exc>>
    /\ UNCHANGED <<clientVars, callVars, pagesVars, newVars, sessionVars, answersVars, votesVars, threadVars, ratesVars>>

\* A later resumption, at the yield: the page at offset p is fetched with
\* the anchor; an empty page ends the generator, any other page is yielded
\* with p advanced by step (lines 510-515 and 527-531).
NextPage ==
    /\ q_pc = "yielded"
    /\ Len(q_requests) < MaxFetches
    /\ LET req == page_request(q_args, Some(q_p), q_lastid)
       IN  \E data \in PagesUpTo(q_args.step) :
            /\ q_requests' = Append(q_requests, [method |-> req.method, params |-> req.params,
                                                  data |-> data])
            /\ q_data' = data
            /\ IF ends_listing(data, q_args.step)
               THEN /\ q_pc' = "done"
                    /\ UNCHANGED <<q_p, q_yields>>
               ELSE /\ q_p' = q_p + q_args.step
                    /\ q_yields' = Append(q_yields, data)
                    /\ q_pc' = "yielded"
    /\ UNCHANGED <<q_args, q_lastid, q_exc>>
    /\ UNCHANGED <<clientVars, callVars, pagesVars, newVars, sessionVars, answersVars, votesVars, threadVars, ratesVars>>

----------------------------------------------------------------------------
(* The polling generator: iterate_new_questions *)

MaxPolls == 3         \* fetches made by the while loop of one generator

\* step = 20 in the signature of get_questions_page
DefaultStep == 20

\* The arguments considered (state 'A', every category, nothing excluded).
NewSteps == {3, 4}
Delays == {2}
NewArgs ==
    [state : {Some("A")}, category : {None}, category_exclude : {""},
     step : NewSteps, delay : Delays, include_first_batch : BOOLEAN]

\* The time one fetch takes, the time the consumer keeps the generator
\* suspended at a yield, and the number of questions asked between two
\* fetches.
Durations == {0, 3}
Waits == {0, 1}
Bursts == {0, 2, 3, 5}

\* The server's list of open questions when the generator is created: the
\* questions base+1 .. top, a later question having a greater id.
Listings == {[base |-> 0, top |-> 0], [base |-> 0, top |-> 2], [base |-> 102, top |-> 105]}

\* What the server answers to a request for the list: the n newest
\* questions, the newest first.
NewestPage(listing, params) ==
    LET len == IF listing.top - listing.base < params["n"]
               THEN listing.top - listing.base ELSE params["n"]
    IN  [i \in 1..len |-> listing.top - i + 1]

MaxAnyPolls == 2      \* turns of the loop over a server that lists in any order
MaxPageLen == 2       \* items of a page of such a server

\* The ids such a server lists.
AnyIds == 1..3

\* The pages of a server that lists in any order: no id twice.
AnyPage ==
    {page \in UNION {[1..l -> AnyIds] : l \in 0..MaxPageLen} :
        \A i, j \in 1..Len(page) : page[i] = page[j] => i = j}

\* The pages the server may answer a request with: the one page of a server
\* that lists the newest first, or any page.
ServerPages(order, listing, params) ==
    IF order = "newest_first" THEN {NewestPage(listing, params)} ELSE AnyPage

\* A variant of new_questions_request that leaves step to its default.
new_questions_request_default_step(a) ==
    get_questions_page(a.state, a.category, Some(DefaultStep), None, None, a.category_exclude, FALSE)

\* The request of lines 548 and 555:
\* get_questions_page(state, category, step, category_exclude=category_exclude)
new_questions_request(a) ==
    get_questions_page(a.state, a.category, Some(a.step), None, None, a.category_exclude, FALSE)

\* A variant of new_batch that yields the whole page once one item is newer.
new_batch_whole_page(data, lastid) ==
    IF \E i \in 1..Len(data) : data[i] > lastid THEN data ELSE <<>>

\* batch = [q for q in data if q.id > lastid]
new_batch(data, lastid) == SelectSeq(data, LAMBDA q : q > lastid)

\* A variant of initial_mark that takes the last item of the page.
initial_mark_oldest(data) == data[Len(data)]

\* lastid = data[0].id
initial_mark(data) == data[1]

\* A variant of sleep_time that sleeps delay whatever time has passed.
sleep_time_whole_delay(last_call, delay, t) == delay

\* max(0., last_call + delay - time.time()), t the value of time.time()
sleep_time(last_call, delay, t) ==
    IF last_call + delay - t > 0 THEN last_call + delay - t ELSE 0

\* Lines 547-551: the first fetch. An empty page leaves data[0] without an
\* item. Without include_first_batch the generator goes on to the loop
\* within the same next(). order is the order the server lists in, durations
\* are the times the fetch may take.
NewStartOn(order, durations) ==
    /\ n_pc = "start"
    /\ \E dur \in durations :
       \E data \in ServerPages(order, n_listing, new_questions_request(n_args).params) :
         LET request == new_questions_request(n_args)
             tick == [woke |-> now, slept |-> 0, start |-> now, burst |-> 0,
                      top |-> n_listing.top, request |-> request, data |-> data, mark |-> None,
                      batch |-> IF n_args.include_first_batch THEN data ELSE <<>>,
                      done |-> now + dur]
         IN  /\ n_last_call' = now
             /\ now' = now + dur
             /\ n_ticks' = Append(n_ticks, tick)
             /\ IF data = <<>>
                THEN /\ n_exc' = Some(IndexError)
                     /\ n_pc' = "raised"
                     /\ UNCHANGED <<n_lastid, n_yields>>
                ELSE /\ n_lastid' = Some(initial_mark(data))
                     /\ n_exc' = None
                     /\ IF n_args.include_first_batch
                        THEN n_yields' = Append(n_yields, data) /\ n_pc' = "yielded"
                        ELSE UNCHANGED n_yields /\ n_pc' = "loop"
    /\ UNCHANGED <<n_args, n_listing>>
    /\ UNCHANGED <<clientVars, callVars, pagesVars, questionsVars, sessionVars, answersVars, votesVars, threadVars, ratesVars>>

\* Lines 552-559: one turn of the while loop. A suspended generator is
\* resumed after the consumer's wait; burst questions have been asked since
\* the previous fetch. order is the order the server lists in, bursts are
\* the numbers of questions asked meanwhile, durations the times the fetch
\* may take; polls bounds the turns.
NewPollOn(order, bursts, durations, polls) ==
    /\ n_pc \in {"yielded", "loop"}
    /\ Len(n_ticks) <= polls
    /\ \E wait \in (IF n_pc = "yielded" THEN Waits ELSE {0}), burst \in bursts, dur \in durations :
       \E data \in ServerPages(order, [n_listing EXCEPT !.top = @ + burst],
                               new_questions_request(n_args).params) :
         LET woke == now + wait
             slept == sleep_time(n_last_call, n_args.delay, woke)
             start == woke + slept
             listing == [n_listing EXCEPT !.top = @ + burst]
             request == new_questions_request(n_args)
             batch == new_batch(data, n_lastid[1])
             tick == [woke |-> woke, slept |-> slept, start |-> start, burst |-> burst,
                      top |-> listing.top, request |-> request, data |-> data, mark |-> n_lastid,
                      batch |-> batch, done |-> start + dur]
         IN  /\ n_last_call' = start
             /\ n_listing' = listing
             /\ now' = start + dur
             /\ n_ticks' = Append(n_ticks, tick)
             /\ IF batch # <<>>
                THEN /\ n_lastid' = Some(data[1])
                     /\ n_yields' = Append(n_yields, batch)
                     /\ n_pc' = "yielded"
                ELSE /\ UNCHANGED <<n_lastid, n_yields>>
                     /\ n_pc' = "loop"
    /\ UNCHANGED <<n_args, n_exc>>
    /\ UNCHANGED <<clientVars, callVars, pagesVars, questionsVars, sessionVars, answersVars, votesVars, threadVars, ratesVars>>

\* iterate_new_questions over a server that lists the newest first.
NewStart == NewStartOn("newest_first", Durations)
NewPoll == NewPollOn("newest_first", Bursts, Durations, MaxPolls)

\* iterate_new_questions over a server that lists in any order; nothing
\* else varies but the consumer's wait.
NewStartAnyOrder == NewStartOn("any", {0})
NewPollAnyOrder == NewPollOn("any", {0}, {0}, MaxAnyPolls)

----------------------------------------------------------------------------
(* The public operations on one client *)

\* A login name is the sequence of its parts: <<"user">>, <<"user", "@", "bk.ru">>.
Logins == { <<"user">>, <<"user", "@", "bk.ru">> }

\* The value of the cookie 'Mpop' the login form sets.
Mpops == {1}

\* error.OtvetAuthError(login)
OtvetAuthError(login) == [kind |-> "OtvetAuthError", login |-> login]

\* error.OtvetArgumentError(...)
OtvetArgumentError == [kind |-> "OtvetArgumentError"]

\* The main pages with nothing after the first thing _load_main_page would
\* miss: a page without the cookie 'ot' carries no marker, one without the
\* salt marker no id marker, one without the id marker no is_adult marker.
\* The server issues salt k with token k.
SessionPages ==
    {p \in MainPages : /\ p.ot = None => p.salt = None
                       /\ p.salt = None => p.id = None
                       /\ p.id = None => p.adult = None
                       /\ p.salt # None => p.salt = p.ot}

\* What a run of _load_main_page on the page found, in the order of its
\* statements: the first thing missing, or "all".
Saw(page) ==
    IF page.fetch # "ok" THEN "no_page"
    ELSE IF categories_falsy /\ page.cats = None THEN "no_categories"
    ELSE IF page.ot = None THEN "no_cookie"
    ELSE IF page.salt = None THEN "no_salt"
    ELSE IF page.id = None THEN "no_id"
    ELSE IF page.adult = None THEN "no_adult"
    ELSE "all"

\* The record of a public operation: its name; the caller of the
\* _load_main_page (or _load_auth_info) its last step ran; whether that step
\* changed the token, the salt or the user id; the exception that left the
\* operation; the number of _load_main_page runs and of login posts; what
\* the last _load_main_page found and raised; the login given; whether the
\* first response of the checked call was 'invalid_token'; whether the
\* request was re-issued; the number of items the checked call returned;
\* the API methods requested, one entry for each request _call_checked got
\* an outcome of; the raise site of an OtvetArgumentError; the arguments of
\* the operation; the value it returned; the snapshot a restore read.
Operation(name) ==
    [name |-> name, cause |-> "none", changed |-> FALSE, raised |-> None,
     loads |-> 0, posts |-> 0, saw |-> "nothing", load_raised |-> None, login |-> <<>>,
     invalid_token |-> FALSE, reissued |-> FALSE, items |-> 0,
     sent |-> <<>>, site |-> "none", args |-> <<>>, result |-> <<>>, snapshot |-> <<>>]

\* Whether the token, the salt or the user id of s differ from the client's.
Changes(s) == s.auth_dict # auth_dict \/ s.user_id # user_id

\* The fields of the client become those of s.
Becomes(s) ==
    /\ auth_dict' = s.auth_dict
    /\ user_id' = s.user_id
    /\ is_adult' = s.is_adult
    /\ categories' = s.categories

\* A variant of login_name that leaves the login as given.
login_name_as_given(login) == login

\* Lines 199-200: if '@' not in login: login += '@mail.ru'
login_name(login) ==
    IF \E i \in 1..Len(login) : login[i] = "@" THEN login ELSE login \o <<"@", "mail.ru">>

\* authenticate(login, password): the post of the login form, which may set
\* the cookie 'Mpop', then _load_main_page, then the test of user_id.
Authenticate ==
    /\ s_pc = "idle"
    /\ \E login \in Logins, post \in {"ok", "ConnectionError"} :
         IF post # "ok"
         THEN /\ s_last' = [Operation("authenticate") EXCEPT !.posts = 1, !.login = login,
                                                            !.raised = Some(ConnectionError)]
              /\ UNCHANGED <<auth_dict, user_id, is_adult, categories, cookie_mpop>>
         ELSE \E page \in SessionPages, mpop \in {cookie_mpop} \cup {Some(m) : m \in Mpops} :
                LET l == _load_main_page(page)
                    raised == IF l.raised # None THEN l.raised
                              ELSE IF l.after.user_id = None
                              THEN Some(OtvetAuthError(login_name(login)))
                              ELSE None
                IN  /\ cookie_mpop' = mpop
                    /\ Becomes(l.after)
                    /\ s_last' = [Operation("authenticate") EXCEPT
                                    !.posts = 1, !.login = login, !.loads = 1,
                                    !.cause = "authenticate", !.changed = Changes(l.after),
                                    !.saw = Saw(page), !.load_raised = l.raised,
                                    !.raised = raised]
    /\ UNCHANGED <<s_pc, auto_renew_token, api_retry_attempts>>
    /\ UNCHANGED <<callVars, pagesVars, questionsVars, newVars, answersVars, votesVars, threadVars, ratesVars>>

\* A variant of is_adult_unknown that forgets the test of user_id.
is_adult_unknown_anonymous_too == is_adult = None

\* The negation of the condition of line 177:
\* self._is_adult is not None or not self.user_id
is_adult_unknown == ~(is_adult # None \/ user_id = None \/ user_id = Some(0))

\* The property is_adult (lines 173-180).
ReadIsAdultOn(pages) ==
    /\ s_pc = "idle"
    /\ IF is_adult_unknown
       THEN \E page \in pages :
              LET l == _load_main_page(page)
              IN  /\ Becomes(l.after)
                  /\ s_last' = [Operation("is_adult") EXCEPT
                                  !.loads = 1, !.cause = "is_adult",
                                  !.changed = Changes(l.after), !.saw = Saw(page),
                                  !.load_raised = l.raised, !.raised = l.raised,
                                  !.result = IF l.raised = None THEN l.after.is_adult ELSE <<>>]
       ELSE /\ s_last' = [Operation("is_adult") EXCEPT !.result = is_adult]
            /\ UNCHANGED <<auth_dict, user_id, is_adult, categories>>
    /\ UNCHANGED <<s_pc, cookie_mpop, auto_renew_token, api_retry_attempts>>
    /\ UNCHANGED <<callVars, pagesVars, questionsVars, newVars, answersVars, votesVars, threadVars, ratesVars>>

\* The property is_adult on a client that any main page may answer.
ReadIsAdult == ReadIsAdultOn(SessionPages)

\* The property categories (lines 182-187).
ReadCategories ==
    /\ s_pc = "idle"
    /\ IF categories_falsy
       THEN \E page \in SessionPages :
              LET l == _load_main_page(page)
              IN  /\ Becomes(l.after)
                  /\ s_last' = [Operation("categories") EXCEPT
                                  !.loads = 1, !.cause = "categories",
                                  !.changed = Changes(l.after), !.saw = Saw(page),
                                  !.load_raised = l.raised, !.raised = l.raised]
       ELSE /\ s_last' = Operation("categories")
            /\ UNCHANGED <<auth_dict, user_id, is_adult, categories>>
    /\ UNCHANGED <<s_pc, cookie_mpop, auto_renew_token, api_retry_attempts>>
    /\ UNCHANGED <<callVars, pagesVars, questionsVars, newVars, answersVars, votesVars, threadVars, ratesVars>>

\* json.dumps of the dict of auth_info: a JSON text, read as its values. A
\* str becomes a JSON string, an int a JSON number, None becomes null.
json_dumps(v) ==
    [dict |-> [k \in DOMAIN v.dict |-> <<"string", v.dict[k]>>],
     user_id |-> IF v.user_id = None THEN <<"null">> ELSE <<"number", v.user_id[1]>>,
     cookie |-> IF v.cookie = None THEN <<"null">> ELSE <<"string", v.cookie[1]>>]

\* json.loads of such a text.
json_loads(text) ==
    [dict |-> [k \in DOMAIN text.dict |-> text.dict[k][2]],
     user_id |-> IF text.user_id[1] = "null" THEN None ELSE Some(text.user_id[2]),
     cookie |-> IF text.cookie[1] = "null" THEN None ELSE Some(text.cookie[2])]

\* A variant of auth_info that leaves the user id out.
auth_info_without_user_id ==
    json_dumps([dict |-> auth_dict, user_id |-> None, cookie |-> cookie_mpop])

\* The property auth_info (lines 189-196).
auth_info ==
    json_dumps([dict |-> auth_dict, user_id |-> user_id, cookie |-> cookie_mpop])

\* A variant of _load_auth_info that does not set the cookie.
_load_auth_info_without_cookie(text) ==
    LET data == json_loads(text)
    IN  [auth_dict |-> data.dict, user_id |-> data.user_id, is_adult |-> None,
         categories |-> None, cookie |-> None]

\* _load_auth_info (lines 109-113) on a client just made by __init__ (lines
\* 84-90): the fields and the cookie 'Mpop' afterwards. cookies.set with the
\* value None sets no cookie.
_load_auth_info(text) ==
    LET data == json_loads(text)
    IN  [auth_dict |-> data.dict, user_id |-> data.user_id, is_adult |-> None,
         categories |-> None, cookie |-> data.cookie]

\* OtvetClient(auth_info=client.auth_info, ...): the client is replaced by
\* one restored from its own snapshot.
Restore ==
    /\ s_pc = "idle"
    /\ LET c == _load_auth_info(auth_info)
       IN  /\ Becomes(c)
           /\ cookie_mpop' = c.cookie
    /\ s_last' = [Operation("restore") EXCEPT !.cause = "restore", !.snapshot = auth_info]
    /\ UNCHANGED <<s_pc, auto_renew_token, api_retry_attempts>>
    /\ UNCHANGED <<callVars, pagesVars, questionsVars, newVars, answersVars, votesVars, threadVars, ratesVars>>

\* get_questions_page, lines 222-223: the category is normalized. A str
\* is looked up in the property categories, which bootstraps when the tree
\* is not built; an empty tree knows no category.
ListingNormalizeOn(pages) ==
    /\ s_pc = "idle"
    /\ \E category \in {None, Some("auto")} :
         IF category # None /\ categories_falsy
         THEN \E page \in pages :
                LET l == _load_main_page(page)
                    raised == IF l.raised # None THEN l.raised
                              ELSE IF l.after.categories = Some(0)
                              THEN Some(OtvetArgumentError)
                              ELSE None
                IN  /\ Becomes(l.after)
                    /\ s_last' = [Operation("get_questions_page") EXCEPT
                                    !.loads = 1, !.cause = "categories",
                                    !.changed = Changes(l.after), !.saw = Saw(page),
                                    !.load_raised = l.raised, !.raised = raised,
                                    !.site = IF raised = Some(OtvetArgumentError)
                                             THEN "normalize_category" ELSE "none"]
                    /\ s_pc' = IF raised = None THEN "call" ELSE "idle"
         ELSE /\ s_last' = Operation("get_questions_page")
              /\ s_pc' = "call"
              /\ UNCHANGED <<auth_dict, user_id, is_adult, categories>>
    /\ UNCHANGED <<cookie_mpop, auto_renew_token, api_retry_attempts>>
    /\ UNCHANGED <<callVars, pagesVars, questionsVars, newVars, answersVars, votesVars, threadVars, ratesVars>>

\* get_questions_page, lines 222-223, any main page answering.
ListingNormalize == ListingNormalizeOn(SessionPages)

\* get_questions_page, line 228: the whole of _call_checked, from the first
\* outcome its retry loop is left with. The first response is inspected with
\* allow_retry; after a renewal the request is re-issued and its outcome
\* inspected without. A page that is returned holds items questions.
ListingCallOn(pages, seconds) ==
    /\ s_pc = "call"
    /\ \E first \in Outcomes :
         IF first.kind # "response"
         THEN /\ s_last' = [s_last EXCEPT !.cause = "none", !.changed = FALSE,
                                          !.sent = <<"/v2/questlist">>,
                                          !.raised = Some([kind |-> first.kind])]
              /\ s_pc' = "idle"
              /\ UNCHANGED <<auth_dict, user_id, is_adult, categories>>
         ELSE \E page \in (IF status_of(first.body) >= 400 /\ allow_retry_first /\ renews(first.body)
                           THEN pages ELSE {CHOOSE p \in pages : p.fetch # "ok"}),
                 second \in seconds, items \in {0, 1} :
                LET c == _check_response(first.body, allow_retry_first, page)
                    c2 == _check_response(second.body, allow_retry_second, page)
                    raised == IF c.raised # None THEN c.raised
                              ELSE IF ~c.ret THEN None
                              ELSE IF second.kind # "response" THEN Some([kind |-> second.kind])
                              ELSE c2.raised
                IN  /\ Becomes(c.after)
                    /\ s_last' = [s_last EXCEPT
                                    !.cause = IF c.loaded THEN "renewal" ELSE "none",
                                    !.changed = Changes(c.after),
                                    !.loads = IF c.loaded THEN @ + 1 ELSE @,
                                    !.saw = IF c.loaded THEN Saw(page) ELSE @,
                                    !.load_raised = IF c.loaded THEN c.raised ELSE @,
                                    !.reissued = c.raised = None /\ c.ret,
                                    !.sent = IF c.raised = None /\ c.ret
                                             THEN <<"/v2/questlist", "/v2/questlist">>
                                             ELSE <<"/v2/questlist">>,
                                    !.invalid_token = Get(first.body, "error", "") = "invalid_token",
                                    !.raised = raised,
                                    !.items = IF raised = None THEN items ELSE 0]
                    /\ s_pc' = IF raised = None /\ items > 0 THEN "build" ELSE "idle"
    /\ UNCHANGED <<cookie_mpop, auto_renew_token, api_retry_attempts>>
    /\ UNCHANGED <<callVars, pagesVars, questionsVars, newVars, answersVars, votesVars, threadVars, ratesVars>>

\* get_questions_page, line 228, any main page and any second outcome.
ListingCall == ListingCallOn(SessionPages, Outcomes)

\* get_questions_page, line 229: build_question_preview(q, self.categories)
\* for an item of the page; the property bootstraps when the tree is not built.
ListingBuildOn(pages) ==
    /\ s_pc = "build"
    /\ IF categories_falsy
       THEN \E page \in pages :
              LET l == _load_main_page(page)
              IN  /\ Becomes(l.after)
                  /\ s_last' = [s_last EXCEPT !.loads = @ + 1, !.cause = "categories",
                                              !.changed = Changes(l.after), !.saw = Saw(page),
                                              !.load_raised = l.raised, !.raised = l.raised]
       ELSE /\ s_last' = [s_last EXCEPT !.cause = "none", !.changed = FALSE]
            /\ UNCHANGED <<auth_dict, user_id, is_adult, categories>>
    /\ s_pc' = "idle"
    /\ UNCHANGED <<cookie_mpop, auto_renew_token, api_retry_attempts>>
    /\ UNCHANGED <<callVars, pagesVars, questionsVars, newVars, answersVars, votesVars, threadVars, ratesVars>>

\* get_questions_page, line 229, any main page answering.
ListingBuild == ListingBuildOn(SessionPages)

----------------------------------------------------------------------------
(* iterate_answers: the answers of one question *)

MaxAnswers == 4          \* the answers the question ever has
MaxAnswerFetches == 3    \* calls of get_more_answers_page by one traversal
MaxGrowth == 2           \* answers given between two requests

\* The calls considered: the question is given as a Question object or by
\* id; step; infinite. delay only sets the length of a wait.
AnswerArgs == [given : {"question", "id"}, step : {1, 2}, infinite : BOOLEAN]

\* lo, lo + 1, ..., hi as a list (empty when hi < lo).
Positions(lo, hi) == [i \in 1..(IF hi < lo THEN 0 ELSE hi - lo + 1) |-> lo + i - 1]

\* The server's answers to '/v2/question' and '/v2/moreanswers' with n and
\* p, total answers being listed: an answer is named by its position.
AnswersAt(total, n, p) ==
    LET hi == IF p + n < total THEN p + n ELSE total
    IN  Positions(p + 1, hi)

\* A variant of build_question that leaves the answer under 'best' out.
build_question_answers_only(best, answers) == answers

\* factories.build_incomplete_question, lines 199-200 and 224: the answers
\* of the question built from a response whose 'best' is best (Optional)
\* and whose 'answers' is answers: a dict keyed by id, 'best' first.
build_question(best, answers) ==
    IF best = None \/ (\E i \in 1..Len(answers) : answers[i] = best[1])
    THEN answers
    ELSE best \o answers

\* get_question(question, answer_count=n) (lines 748-751) on a question
\* with total answers, best (Optional) the chosen one: its answers and its
\* answer_count ('anscnt').
get_question(total, best, n) ==
    [answers |-> build_question(best, AnswersAt(total, n, 0)), answer_count |-> total]

\* The sum of the lengths of the lists of a list.
RECURSIVE TotalLen(_)
TotalLen(lists) ==
    IF lists = <<>> THEN 0 ELSE Len(lists[1]) + TotalLen(Tail(lists))

\* A variant of after_prefetch that ends the generator when the question
\* holds all the answers it reports, infinite or not.
after_prefetch_ending(question, offset, infinite) ==
    IF offset < question.answer_count THEN "paged" ELSE "done"

\* Where the generator goes on once offset is set and after the paged loop.
after_prefetch(question, offset, infinite) ==
    IF offset < question.answer_count THEN "paged"
    ELSE IF infinite THEN "poll" ELSE "done"

\* The generator runs from its creation to line 592: the early return of
\* line 584, get_question for an id (line 587), the yield of the answers the
\* question holds (lines 588-589), offset (line 590). get_question may raise.
AnswersStart ==
    /\ a_pc = "start"
    /\ IF a_args.given = "question" /\ a_question.answer_count = 0 /\ ~a_args.infinite
       THEN /\ a_pc' = "done"
            /\ UNCHANGED <<a_question, a_offset, a_yields, a_requests>>
       ELSE \/ /\ a_args.given = "id"
               /\ a_pc' = "raised"
               /\ a_requests' = Append(a_requests, [method |-> "/v2/question", n |-> a_args.step,
                                                    p |-> 0, yielded |-> 0, data |-> <<>>])
               /\ UNCHANGED <<a_question, a_offset, a_yields>>
            \/ LET question == IF a_args.given = "id"
                               THEN get_question(a_total, a_best, a_args.step)
                               ELSE a_question
               IN  /\ a_question' = question
                   /\ a_requests' =
                        IF a_args.given = "id"
                        THEN Append(a_requests, [method |-> "/v2/question", n |-> a_args.step,
                                                 p |-> 0, yielded |-> 0,
                                                 data |-> question.answers])
                        ELSE a_requests
                   /\ a_yields' = IF question.answers # <<>>
                                  THEN Append(a_yields, question.answers) ELSE a_yields
                   /\ a_offset' = Len(question.answers)
                   /\ a_pc' = after_prefetch(question, Len(question.answers), a_args.infinite)
    /\ UNCHANGED <<a_args, a_total, a_best>>
    /\ UNCHANGED <<clientVars, callVars, pagesVars, questionsVars, newVars, sessionVars, votesVars, threadVars, ratesVars>>

\* One turn of the loop of lines 592-598 (a_pc = "paged") or of 602-608
\* (a_pc = "poll", after its wait): get_more_answers_page(question.id, step,
\* offset), which may raise; the answers are yielded unless there are none;
\* offset grows by their number. Answers may have been given meanwhile.
AnswersFetch ==
    /\ a_pc \in {"paged", "poll"}
    /\ Len(SelectSeq(a_requests, LAMBDA r : r.method = "/v2/moreanswers")) < MaxAnswerFetches
    /\ \E grown \in 0..MaxGrowth :
         /\ a_total + grown <= MaxAnswers
         /\ a_total' = a_total + grown
         /\ \/ /\ a_pc' = "raised"
               /\ a_requests' = Append(a_requests, [method |-> "/v2/moreanswers",
                                                    n |-> a_args.step, p |-> a_offset,
                                                    yielded |-> TotalLen(a_yields),
                                                    data |-> <<>>])
               /\ UNCHANGED <<a_offset, a_yields>>
            \/ LET answers == AnswersAt(a_total + grown, a_args.step, a_offset)
               IN  /\ a_requests' = Append(a_requests, [method |-> "/v2/moreanswers",
                                                        n |-> a_args.step, p |-> a_offset,
                                                        yielded |-> TotalLen(a_yields),
                                                        data |-> answers])
                   /\ a_yields' = IF answers # <<>> THEN Append(a_yields, answers) ELSE a_yields
                   /\ a_offset' = a_offset + Len(answers)
                   /\ a_pc' = IF a_pc = "paged" /\ Len(answers) >= a_args.step THEN "paged"
                              ELSE IF a_args.infinite THEN "poll" ELSE "done"
    /\ UNCHANGED <<a_args, a_best, a_question>>
    /\ UNCHANGED <<clientVars, callVars, pagesVars, questionsVars, newVars, sessionVars, votesVars, threadVars, ratesVars>>

----------------------------------------------------------------------------
(* Two checked calls on one client, run by two threads without a lock *)

\* The two logical calls.
Calls == {1, 2}

\* The responses a request of these calls may get: a result, the error
\* 'invalid_token', another error.
ThreadResponses ==
    { [data |-> 1],
      [status |-> 401, error |-> "invalid_token"],
      [status |-> 500, error |-> "internal"] }

\* _call_api reads self._auth_dict (one attribute load, line 116) and sends
\* the request with the token and the salt of that dict.
ThreadSent(c, phase) == [call |-> c, phase |-> phase, auth |-> auth_dict]

\* The first request of call c that gets a response (lines 134-143), and the
\* inspection of that response (line 144, lines 124-131) up to the call of
\* _load_main_page or to the exception.
TSend(c) ==
    /\ t_pc[c] = "call"
    /\ \E body \in ThreadResponses :
         /\ t_sent' = Append(t_sent, ThreadSent(c, "first"))
         /\ t_pc' = [t_pc EXCEPT ![c] =
                        IF status_of(body) < 400 THEN "done"
                        ELSE IF allow_retry_first /\ renews(body) THEN "fetch"
                        ELSE "raised"]
    /\ UNCHANGED <<t_page, t_token, t_renewals, t_fetches, t_overlap, cookie_ot>>
    /\ UNCHANGED <<clientVars, callVars, pagesVars, questionsVars, newVars, sessionVars, answersVars, votesVars, ratesVars>>

\* A variant of TFetch whose response does not set the cookie 'ot'.
TFetch_keeping_cookie(c) ==
    /\ t_pc[c] = "fetch"
    /\ t_fetches' = t_fetches + 1
    /\ cookie_ot' = cookie_ot
    /\ t_page' = [t_page EXCEPT ![c] = t_fetches + 1]
    /\ t_renewals' = [t_renewals EXCEPT ![c] = @ + 1]
    /\ t_overlap' = (t_overlap \/ \E d \in Calls \ {c} : t_pc[d] = "cookie")
    /\ t_pc' = [t_pc EXCEPT ![c] = "cookie"]
    /\ UNCHANGED <<t_token, t_sent>>
    /\ UNCHANGED <<clientVars, callVars, pagesVars, questionsVars, newVars, sessionVars, answersVars, votesVars, ratesVars>>

\* Line 95: call c fetches the main page. The server answers the k-th fetch
\* with the page k, whose salt is k, and sets the cookie 'ot' of the shared
\* session to the token k. t_overlap records that the page was fetched
\* while the other call held a page whose cookie it had not read yet.
TFetch(c) ==
    /\ t_pc[c] = "fetch"
    /\ t_fetches' = t_fetches + 1
    /\ cookie_ot' = t_fetches + 1
    /\ t_page' = [t_page EXCEPT ![c] = t_fetches + 1]
    /\ t_renewals' = [t_renewals EXCEPT ![c] = @ + 1]
    /\ t_overlap' = (t_overlap \/ \E d \in Calls \ {c} : t_pc[d] = "cookie")
    /\ t_pc' = [t_pc EXCEPT ![c] = "cookie"]
    /\ UNCHANGED <<t_token, t_sent>>
    /\ UNCHANGED <<clientVars, callVars, pagesVars, questionsVars, newVars, sessionVars, answersVars, votesVars, ratesVars>>

\* Lines 98-100: token = self._session.cookies['ot'], the cookie as it is
\* now; salt is searched in the page the call holds.
TReadCookie(c) ==
    /\ t_pc[c] = "cookie"
    /\ t_token' = [t_token EXCEPT ![c] = cookie_ot]
    /\ t_pc' = [t_pc EXCEPT ![c] = "user"]
    /\ UNCHANGED <<t_page, t_renewals, t_sent, t_fetches, t_overlap, cookie_ot>>
    /\ UNCHANGED <<clientVars, callVars, pagesVars, questionsVars, newVars, sessionVars, answersVars, votesVars, ratesVars>>

\* Line 101: self.user_id = ...
TSetUser(c) ==
    /\ t_pc[c] = "user"
    /\ user_id' = Some(1)
    /\ t_pc' = [t_pc EXCEPT ![c] = "auth"]
    /\ UNCHANGED <<auth_dict, is_adult, categories, auto_renew_token, api_retry_attempts>>
    /\ UNCHANGED <<t_page, t_token, t_renewals, t_sent, t_fetches, t_overlap, cookie_ot>>
    /\ UNCHANGED <<callVars, pagesVars, questionsVars, newVars, sessionVars, answersVars, votesVars, ratesVars>>

\* Line 102: self._auth_dict = {'token': token, 'salt': salt}, a new dict
\* bound in one assignment.
TSetAuth(c) ==
    /\ t_pc[c] = "auth"
    /\ auth_dict' = [token |-> t_token[c], salt |-> t_page[c]]
    /\ t_pc' = [t_pc EXCEPT ![c] = "adult"]
    /\ UNCHANGED <<user_id, is_adult, categories, auto_renew_token, api_retry_attempts>>
    /\ UNCHANGED <<t_page, t_token, t_renewals, t_sent, t_fetches, t_overlap, cookie_ot>>
    /\ UNCHANGED <<callVars, pagesVars, questionsVars, newVars, sessionVars, answersVars, votesVars, ratesVars>>

\* Line 103: self._is_adult = ...; _load_main_page and _check_response
\* return.
TSetAdult(c) ==
    /\ t_pc[c] = "adult"
    /\ \E flag \in BOOLEAN : is_adult' = Some(flag)
    /\ t_pc' = [t_pc EXCEPT ![c] = "resend"]
    /\ UNCHANGED <<auth_dict, user_id, categories, auto_renew_token, api_retry_attempts>>
    /\ UNCHANGED <<t_page, t_token, t_renewals, t_sent, t_fetches, t_overlap, cookie_ot>>
    /\ UNCHANGED <<callVars, pagesVars, questionsVars, newVars, sessionVars, answersVars, votesVars, ratesVars>>

\* Lines 145-147: the request is re-issued and its response inspected
\* without allow_retry: a result is returned, an error raised.
TResend(c) ==
    /\ t_pc[c] = "resend"
    /\ \E body \in ThreadResponses :
         /\ t_sent' = Append(t_sent, ThreadSent(c, "reissue"))
         /\ t_pc' = [t_pc EXCEPT ![c] = IF status_of(body) < 400 THEN "done" ELSE "raised"]
    /\ UNCHANGED <<t_page, t_token, t_renewals, t_fetches, t_overlap, cookie_ot>>
    /\ UNCHANGED <<clientVars, callVars, pagesVars, questionsVars, newVars, sessionVars, answersVars, votesVars, ratesVars>>

----------------------------------------------------------------------------
(* The table of levels: rates._fill_rates *)

\* _RATES (rates.py:5-20): name, min_points, min_kpd, the lowest level first.
RATES ==
    << [name |-> "Novichok", min_points |-> 0, min_kpd |-> 0],
       [name |-> "Uchenik", min_points |-> 1, min_kpd |-> 0],
       [name |-> "Znatok", min_points |-> 250, min_kpd |-> 0],
       [name |-> "Profi", min_points |-> 500, min_kpd |-> 0],
       [name |-> "Master", min_points |-> 1000, min_kpd |-> 0],
       [name |-> "Guru", min_points |-> 2500, min_kpd |-> 0],
       [name |-> "Myslitel", min_points |-> 5000, min_kpd |-> 0],
       [name |-> "Mudrets", min_points |-> 10000, min_kpd |-> 0],
       [name |-> "Prosvetlennyy", min_points |-> 20000, min_kpd |-> 0],
       [name |-> "Orakul", min_points |-> 50000, min_kpd |-> 0],
       [name |-> "Geniy", min_points |-> 50000, min_kpd |-> 25],
       [name |-> "Iskusstvennyy Intellekt", min_points |-> 100000, min_kpd |-> 0],
       [name |-> "Vysshiy razum", min_points |-> 100000, min_kpd |-> 30] >>

\* The tables filled: _RATES, and every run of consecutive rows of it.
RateTables ==
    { SubSeq(RATES, lo, hi) : lo \in 1..Len(RATES), hi \in 1..Len(RATES) } \ {<<>>}

\* key=lambda r: (r.min_points, r.min_kpd): the order of two keys.
key_less(a, b) ==
    \/ a.min_points < b.min_points
    \/ a.min_points = b.min_points /\ a.min_kpd < b.min_kpd

\* min(list, key=..., default=None): the first of the items of the least
\* key, None for an empty list. A rate is referred to by its name.
min_by_key(list) ==
    IF list = <<>> THEN None
    ELSE LET least == {i \in 1..Len(list) : \A j \in 1..Len(list) : ~key_less(list[j], list[i])}
             first == CHOOSE i \in least : \A j \in least : i <= j
         IN  Some(list[first].name)

\* The list read from its end.
Reversed(list) == [i \in 1..Len(list) |-> list[Len(list) + 1 - i]]

\* A variant of compared_rate that compares with the row being added.
compared_rate_row(row, rate) == row

\* The rate the two comprehensions of lines 27 and 29 compare with: the
\* local variable rate, which holds the Rate built by the iteration before
\* (line 31 binds it after the comprehensions) and nothing in the first one.
compared_rate(row, rate) == rate[1]

\* One iteration of the loop of _fill_rates (lines 25-32) over _RATES[::-1].
\* In the first iteration rates is empty and the comprehensions read nothing.
FillRow ==
    /\ r_pc = "loop"
    /\ r_i >= 1
    /\ LET row == r_table[r_i]
           next == IF r_rates = <<>> THEN None
                   ELSE min_by_key(SelectSeq(r_rates, LAMBDA r :
                            r.min_points > compared_rate(row, r_rate).min_points))
           next_by_kpd ==
                   IF r_rates = <<>> THEN None
                   ELSE min_by_key(SelectSeq(r_rates, LAMBDA r :
                            /\ r.min_points = compared_rate(row, r_rate).min_points
                            /\ r.min_kpd > compared_rate(row, r_rate).min_kpd))
           rate == [name |-> row.name, min_points |-> row.min_points, min_kpd |-> row.min_kpd,
                    next |-> next, next_by_kpd |-> next_by_kpd]
       IN  /\ r_rate' = Some(rate)
           /\ r_rates' = Append(r_rates, rate)
    /\ r_i' = r_i - 1
    /\ UNCHANGED <<r_pc, r_table>>
    /\ UNCHANGED <<clientVars, callVars, pagesVars, questionsVars, newVars, sessionVars, answersVars, votesVars, threadVars>>

\* rates.reverse() (line 33), the loop being over.
FillReverse ==
    /\ r_pc = "loop"
    /\ r_i = 0
    /\ r_rates' = Reversed(r_rates)
    /\ r_pc' = "done"
    /\ UNCHANGED <<r_table, r_i, r_rate>>
    /\ UNCHANGED <<clientVars, callVars, pagesVars, questionsVars, newVars, sessionVars, answersVars, votesVars, threadVars>>

----------------------------------------------------------------------------
(* Operations that check their arguments, and operations on the profile *)

\* The whole of _call_checked (lines 133-147) from the outcome its retry loop
\* is left with: the fields afterwards, the exception that leaves it, and
\* what it did. The first response is inspected with allow_retry; after a
\* renewal the request is re-issued and its outcome inspected without.
call_outcome(first, second, page) ==
    IF first.kind # "response"
    THEN [after |-> session, raised |-> Some([kind |-> first.kind]), loaded |-> FALSE,
          load_raised |-> None, reissued |-> FALSE, invalid_token |-> FALSE]
    ELSE LET c == _check_response(first.body, allow_retry_first, page)
             c2 == _check_response(second.body, allow_retry_second, page)
         IN  [after |-> c.after,
              raised |-> IF c.raised # None THEN c.raised
                         ELSE IF ~c.ret THEN None
                         ELSE IF second.kind # "response" THEN Some([kind |-> second.kind])
                         ELSE c2.raised,
              loaded |-> c.loaded,
              load_raised |-> c.raised,
              reissued |-> c.raised = None /\ c.ret,
              invalid_token |-> Get(first.body, "error", "") = "invalid_token"]

\* Whether the first outcome makes _check_response bootstrap.
Renewing(first) ==
    /\ first.kind = "response"
    /\ status_of(first.body) >= 400 /\ allow_retry_first /\ renews(first.body)

\* The main pages these operations are answered with: the fetch fails, or
\* the page has a tree (empty or not) and no session, or the session of
\* user 1 under token 2.
OperationPages ==
    {p \in SessionPages :
        p.fetch = "ok" => /\ p.cats # None
                          /\ p.ot \in {None, Some(2)}
                          /\ p.ot # None => p.salt # None /\ p.id = Some(1)}

\* The outcomes of a re-issued request: no response, a result, an error.
OperationSeconds ==
    { [kind |-> "ConnectionError"],
      [kind |-> "response", body |-> [data |-> 1]],
      [kind |-> "response", body |-> [status |-> 401, error |-> "invalid_token"]] }

\* The main pages and the second outcomes to consider after a first outcome.
PagesAfter(first) ==
    IF Renewing(first) THEN OperationPages ELSE {CHOOSE p \in OperationPages : p.fetch # "ok"}
SecondsAfter(first) ==
    IF Renewing(first) THEN OperationSeconds
    ELSE {CHOOSE o \in OperationSeconds : o.kind = "ConnectionError"}

\* The record of the operation rec after a checked call of method with the
\* outcome c, the bootstrap having read page.
Called(rec, method, c, page) ==
    [rec EXCEPT !.cause = IF c.loaded THEN "renewal" ELSE "none",
                !.changed = Changes(c.after),
                !.loads = IF c.loaded THEN @ + 1 ELSE @,
                !.saw = IF c.loaded THEN Saw(page) ELSE @,
                !.load_raised = IF c.loaded THEN c.load_raised ELSE @,
                !.reissued = c.reissued,
                !.invalid_token = c.invalid_token,
                !.sent = IF c.reissued THEN @ \o <<method, method>> ELSE Append(@, method),
                !.raised = c.raised]

\* The record of the operation rec after self.categories was read and
\* bootstrapped on page, with the result l.
Loaded(rec, l, page) ==
    [rec EXCEPT !.loads = @ + 1, !.cause = "categories", !.changed = Changes(l.after),
                !.saw = Saw(page), !.load_raised = l.raised, !.raised = l.raised]

\* set_is_adult_flag (lines 993-997): one checked call. args keeps the adult
\* flag the client held.
SetIsAdultFlag ==
    /\ s_pc = "idle"
    /\ \E first \in Outcomes :
         \E page \in PagesAfter(first), second \in SecondsAfter(first) :
           LET c == call_outcome(first, second, page)
           IN  /\ Becomes(c.after)
               /\ s_last' = Called([Operation("set_is_adult_flag") EXCEPT !.args = is_adult],
                                   "/v2/iamadult", c, page)
    /\ UNCHANGED <<s_pc, cookie_mpop, auto_renew_token, api_retry_attempts>>
    /\ UNCHANGED <<callVars, pagesVars, questionsVars, newVars, answersVars, votesVars, threadVars, ratesVars>>

\* The parameters build_user_profile requires (data, user_id,
\* category_provider: none has a default) and the arguments get_user passes
\* (data, user).
build_user_profile_required == 3
build_user_profile_passed == 2

\* The '/v2/stats_ex' responses: whether the keys 'expert' and 'maillogin'
\* are there.
ProfileData == [expert : BOOLEAN, maillogin : BOOLEAN]

\* factories.build_user_profile(data, user) as get_user calls it: the class
\* of the profile built, or the exception raised. Python raises TypeError
\* from the call when a required argument is missing.
build_user_profile(data) ==
    IF build_user_profile_passed # build_user_profile_required
    THEN [raised |-> Some(TypeError), kind |-> None]
    ELSE [raised |-> None,
          kind |-> Some(IF data.expert THEN "BrandExpertProfile"
                        ELSE IF data.maillogin THEN "MyUserProfile"
                        ELSE "UserProfile")]

\* _normalize_user (lines 149-156) for a user given by id or not given: the
\* id, or None where OtvetArgumentError is raised.
_normalize_user(user) ==
    IF user # None THEN user ELSE user_id

\* get_user (lines 753-762).
GetUser ==
    /\ s_pc = "idle"
    /\ \E user \in {None, Some(2)} :
         IF _normalize_user(user) = None
         THEN /\ s_last' = [Operation("get_user") EXCEPT !.raised = Some(OtvetArgumentError),
                                                        !.site = "normalize_user"]
              /\ UNCHANGED <<auth_dict, user_id, is_adult, categories>>
         ELSE \E first \in Outcomes :
              \E page \in PagesAfter(first), second \in SecondsAfter(first) :
                LET c == call_outcome(first, second, page)
                    called == Called(Operation("get_user"), "/v2/stats_ex", c, page)
                IN  /\ Becomes(c.after)
                    /\ IF c.raised # None THEN s_last' = called
                       ELSE \E data \in ProfileData :
                              LET built == build_user_profile(data)
                              IN  s_last' = [called EXCEPT !.args = data,
                                                          !.raised = built.raised,
                                                          !.result = built.kind]
    /\ UNCHANGED <<s_pc, cookie_mpop, auto_renew_token, api_retry_attempts>>
    /\ UNCHANGED <<callVars, pagesVars, questionsVars, newVars, answersVars, votesVars, threadVars, ratesVars>>

\* The calls of edit_question considered: the question is given as an object
\* or by id; it has an edit token or none, and options poll options; the
\* new poll options are not given or new_options many. No category is given.
EditArgs ==
    [given : {"object", "id"}, edit_token : BOOLEAN, options : {0, 1},
     new_options : {None, Some(1), Some(2)}]

\* A variant of edit_checks that lets any number of new poll options through.
edit_checks_without_poll_test(a) ==
    IF ~a.edit_token THEN "edit_token" ELSE "none"

\* The tests of lines 835-836 and 846-848: the raise site, or "none".
edit_checks(a) ==
    IF ~a.edit_token THEN "edit_token"
    ELSE IF a.new_options # None /\ a.new_options[1] > a.options THEN "poll_options"
    ELSE "none"

\* The record rec after the tests of edit_question on its arguments.
Checked(rec) ==
    IF edit_checks(rec.args) = "none" THEN rec
    ELSE [rec EXCEPT !.raised = Some(OtvetArgumentError), !.site = edit_checks(rec.args)]

\* edit_question, lines 832-848 for a question object, 832-834 for an id.
EditStart ==
    /\ s_pc = "idle"
    /\ \E a \in EditArgs :
         LET rec == [Operation("edit_question") EXCEPT !.args = a]
         IN  IF user_id = None
             THEN /\ s_last' = [rec EXCEPT !.raised = Some(OtvetArgumentError),
                                           !.site = "ensure_authenticated"]
                  /\ s_pc' = "idle"
             ELSE IF a.given = "id"
             THEN s_last' = rec /\ s_pc' = "edit_fetch"
             ELSE /\ s_last' = Checked(rec)
                  /\ s_pc' = IF edit_checks(a) = "none" THEN "edit_call" ELSE "idle"
    /\ UNCHANGED <<auth_dict, user_id, is_adult, categories>>
    /\ UNCHANGED <<cookie_mpop, auto_renew_token, api_retry_attempts>>
    /\ UNCHANGED <<callVars, pagesVars, questionsVars, newVars, answersVars, votesVars, threadVars, ratesVars>>

\* edit_question, line 834: get_question up to the return of _call_checked.
EditFetch ==
    /\ s_pc = "edit_fetch"
    /\ \E first \in Outcomes :
         \E page \in PagesAfter(first), second \in SecondsAfter(first) :
           LET c == call_outcome(first, second, page)
           IN  /\ Becomes(c.after)
               /\ s_last' = Called(s_last, "/v2/question", c, page)
               /\ s_pc' = IF c.raised = None THEN "edit_fetched" ELSE "idle"
    /\ UNCHANGED <<cookie_mpop, auto_renew_token, api_retry_attempts>>
    /\ UNCHANGED <<callVars, pagesVars, questionsVars, newVars, answersVars, votesVars, threadVars, ratesVars>>

\* edit_question, line 834, the end of get_question:
\* build_question(data, self.categories); then lines 835-848.
EditFetched ==
    /\ s_pc = "edit_fetched"
    /\ IF categories_falsy
       THEN \E page \in OperationPages :
              LET l == _load_main_page(page)
                  rec == Loaded(s_last, l, page)
              IN  /\ Becomes(l.after)
                  /\ s_last' = IF l.raised # None THEN rec ELSE Checked(rec)
                  /\ s_pc' = IF l.raised = None /\ edit_checks(s_last.args) = "none"
                             THEN "edit_call" ELSE "idle"
       ELSE /\ s_last' = Checked([s_last EXCEPT !.cause = "none", !.changed = FALSE])
            /\ s_pc' = IF edit_checks(s_last.args) = "none" THEN "edit_call" ELSE "idle"
            /\ UNCHANGED <<auth_dict, user_id, is_adult, categories>>
    /\ UNCHANGED <<cookie_mpop, auto_renew_token, api_retry_attempts>>
    /\ UNCHANGED <<callVars, pagesVars, questionsVars, newVars, answersVars, votesVars, threadVars, ratesVars>>

\* edit_question, line 850: the edit request.
EditCall ==
    /\ s_pc = "edit_call"
    /\ \E first \in Outcomes :
         \E page \in PagesAfter(first), second \in SecondsAfter(first) :
           LET c == call_outcome(first, second, page)
           IN  /\ Becomes(c.after)
               /\ s_last' = Called(s_last, "/v2/editqst", c, page)
               /\ s_pc' = IF c.raised = None THEN "edit_build" ELSE "idle"
    /\ UNCHANGED <<cookie_mpop, auto_renew_token, api_retry_attempts>>
    /\ UNCHANGED <<callVars, pagesVars, questionsVars, newVars, answersVars, votesVars, threadVars, ratesVars>>

\* edit_question, line 851: build_question(data, self.categories).
EditBuild ==
    /\ s_pc = "edit_build"
    /\ IF categories_falsy
       THEN \E page \in OperationPages :
              LET l == _load_main_page(page)
              IN  /\ Becomes(l.after)
                  /\ s_last' = Loaded(s_last, l, page)
       ELSE /\ s_last' = [s_last EXCEPT !.cause = "none", !.changed = FALSE]
            /\ UNCHANGED <<auth_dict, user_id, is_adult, categories>>
    /\ s_pc' = "idle"
    /\ UNCHANGED <<cookie_mpop, auto_renew_token, api_retry_attempts>>
    /\ UNCHANGED <<callVars, pagesVars, questionsVars, newVars, answersVars, votesVars, threadVars, ratesVars>>

\* OtvetClient(auth_info=..., auto_renew_token=..., api_retry_attempts=...):
\* a fresh client, or one restored by _load_auth_info from a snapshot.
InitClient ==
    /\ auto_renew_token \in BOOLEAN
    /\ api_retry_attempts \in 0..MaxRetry
    /\ \/ auth_dict = EmptyDict /\ user_id = None
       \/ \E t \in Tokens, s \in Salts, u \in UserIds :
            auth_dict = [token |-> t, salt |-> s] /\ user_id = Some(u)
    /\ is_adult = None
    /\ categories = None

InitCall ==
    /\ pc = "idle"
    /\ op = CHOOSE o \in Ops : ~o.direct
    /\ attempt = 0
    /\ result = None
    /\ exc = None
    /\ log = <<>>
    /\ sleeps = 0
    /\ bootstraps = 0
    /\ calls = 0

\* No generator of iterate_pages exists.
NoPages ==
    /\ it_pc = "none"
    /\ it_step = 1
    /\ it_p = 0
    /\ it_data = <<>>
    /\ it_fetches = <<>>
    /\ it_yields = <<>>

\* No generator of iterate_questions / iterate_best_questions exists.
NoQuestions ==
    /\ q_pc = "none"
    /\ q_args = CHOOSE a \in QuestionArgs : a.kind = "best" /\ a.category = None /\ a.step = 1
    /\ q_p = 0
    /\ q_data = <<>>
    /\ q_lastid = None
    /\ q_requests = <<>>
    /\ q_yields = <<>>
    /\ q_exc = None

\* No generator of iterate_new_questions exists.
NoNewQuestions ==
    /\ n_pc = "none"
    /\ n_args = CHOOSE a \in NewArgs : a.step = 3 /\ a.include_first_batch
    /\ n_listing = [base |-> 0, top |-> 0]
    /\ now = 0
    /\ n_last_call = 0
    /\ n_lastid = None
    /\ n_ticks = <<>>
    /\ n_yields = <<>>
    /\ n_exc = None

\* No public operation is made on the client.
NoSession ==
    /\ s_pc = "off"
    /\ s_last = Operation("none")
    /\ cookie_mpop = None

\* No generator of iterate_answers exists.
NoAnswers ==
    /\ a_pc = "none"
    /\ a_args = [given |-> "id", step |-> 1, infinite |-> FALSE]
    /\ a_total = 0
    /\ a_best = None
    /\ a_question = [answers |-> <<>>, answer_count |-> 0]
    /\ a_offset = 0
    /\ a_requests = <<>>
    /\ a_yields = <<>>

\* No generator of iterate_votes exists.
NoVotes == v_option = 0

\* No thread runs a checked call.
NoThreads ==
    /\ t_pc = [c \in Calls |-> "none"]
    /\ t_page = [c \in Calls |-> 0]
    /\ t_token = [c \in Calls |-> 0]
    /\ t_renewals = [c \in Calls |-> 0]
    /\ t_sent = <<>>
    /\ t_fetches = 0
    /\ t_overlap = FALSE
    /\ cookie_ot = 0

\* The table of levels is not being filled.
NoRates ==
    /\ r_pc = "none"
    /\ r_table = RATES
    /\ r_i = 0
    /\ r_rate = None
    /\ r_rates = <<>>

\* OtvetClient(): a fresh client with the default arguments (line 77).
DefaultClient ==
    /\ auto_renew_token = TRUE
    /\ api_retry_attempts = 3
    /\ auth_dict = EmptyDict
    /\ user_id = None
    /\ is_adult = None
    /\ categories = None

vars == <<clientVars, callVars, pagesVars, questionsVars, newVars, sessionVars, answersVars,
         votesVars, threadVars, ratesVars>>

Init ==
    /\ NoThreads /\ NoRates
    /\ InitClient /\ InitCall /\ NoPages /\ NoQuestions /\ NoNewQuestions /\ NoSession
    /\ NoAnswers /\ NoVotes

Next ==
    \/ StartCall
    \/ GuardedAttempt
    \/ UnguardedAttempt
    \/ CheckResponse
    \/ Reissue
    \/ Recheck
    \/ Finish

Spec == Init /\ [][Next]_vars

\* iterate_pages(get_page, step) is called: the generator exists and has not run.
InitPages ==
    /\ NoThreads /\ NoRates
    /\ DefaultClient /\ InitCall /\ NoQuestions /\ NoNewQuestions /\ NoSession
    /\ NoAnswers /\ NoVotes
    /\ it_pc = "start"
    /\ it_step \in 1..MaxStep
    /\ it_p = 0
    /\ it_data = <<>>
    /\ it_fetches = <<>>
    /\ it_yields = <<>>

NextPages == FetchPage \/ EndAfterShortPage \/ IteratePages

SpecPages == InitPages /\ [][NextPages]_vars

\* iterate_questions(...) or iterate_best_questions(...) is called: the
\* generator exists and has not run.
InitQuestions ==
    /\ NoThreads /\ NoRates
    /\ DefaultClient /\ InitCall /\ NoPages /\ NoNewQuestions /\ NoSession
    /\ NoAnswers /\ NoVotes
    /\ q_pc = "start"
    /\ q_args \in QuestionArgs
    /\ q_p = 0
    /\ q_data = <<>>
    /\ q_lastid = None
    /\ q_requests = <<>>
    /\ q_yields = <<>>
    /\ q_exc = None

NextQuestions == FirstPage \/ NextPage

SpecQuestions == InitQuestions /\ [][NextQuestions]_vars

\* iterate_new_questions(...) is called: the generator exists and has not run.
InitNewQuestions ==
    /\ NoThreads /\ NoRates
    /\ DefaultClient /\ InitCall /\ NoPages /\ NoQuestions /\ NoSession
    /\ NoAnswers /\ NoVotes
    /\ n_pc = "start"
    /\ n_args \in NewArgs
    /\ n_listing \in Listings
    /\ now = 0
    /\ n_last_call = 0
    /\ n_lastid = None
    /\ n_ticks = <<>>
    /\ n_yields = <<>>
    /\ n_exc = None

NextNewQuestions == NewStart \/ NewPoll

SpecNewQuestions == InitNewQuestions /\ [][NextNewQuestions]_vars

\* The same calls over a server that lists in any order.
NextAnyOrder == NewStartAnyOrder \/ NewPollAnyOrder

SpecAnyOrder == InitNewQuestions /\ [][NextAnyOrder]_vars

\* OtvetClient(auto_renew_token=...): a fresh client, no operation made yet.
InitSession ==
    /\ NoThreads /\ NoRates
    /\ auto_renew_token \in BOOLEAN
    /\ api_retry_attempts = 3
    /\ auth_dict = EmptyDict
    /\ user_id = None
    /\ is_adult = None
    /\ categories = None
    /\ InitCall /\ NoPages /\ NoQuestions /\ NoNewQuestions
    /\ NoAnswers /\ NoVotes
    /\ s_pc = "idle"
    /\ s_last = Operation("__init__")
    /\ cookie_mpop = None

NextSession ==
    \/ Authenticate
    \/ ReadIsAdult
    \/ ReadCategories
    \/ Restore
    \/ ListingNormalize
    \/ ListingCall
    \/ ListingBuild

SpecSession == InitSession /\ [][NextSession]_vars

\* A fresh client, or one that has logged in: with or without its adult
\* flag (a restored client has none) and its category tree.
InitOperations ==
    /\ NoThreads /\ NoRates
    /\ auto_renew_token \in BOOLEAN
    /\ api_retry_attempts = 3
    /\ \/ /\ auth_dict = EmptyDict /\ user_id = None /\ is_adult = None
          /\ cookie_mpop = None
       \/ /\ auth_dict = [token |-> 1, salt |-> 1] /\ user_id = Some(1)
          /\ is_adult \in {None, Some(FALSE), Some(TRUE)}
          /\ cookie_mpop = Some(1)
    /\ categories \in {None, Some(1)}
    /\ InitCall /\ NoPages /\ NoQuestions /\ NoNewQuestions
    /\ NoAnswers /\ NoVotes
    /\ s_pc = "idle"
    /\ s_last = Operation("__init__")

\* The property is_adult and get_questions_page, answered with the pages
\* and outcomes of this section.
OperationReadIsAdult == ReadIsAdultOn(OperationPages)
OperationListingNormalize == ListingNormalizeOn(OperationPages)
OperationListingCall == ListingCallOn(OperationPages, OperationSeconds)
OperationListingBuild == ListingBuildOn(OperationPages)

NextOperations ==
    \/ OperationReadIsAdult
    \/ SetIsAdultFlag
    \/ GetUser
    \/ EditStart
    \/ EditFetch
    \/ EditFetched
    \/ EditCall
    \/ EditBuild
    \/ OperationListingNormalize
    \/ OperationListingCall
    \/ OperationListingBuild

SpecOperations == InitOperations /\ [][NextOperations]_vars

\* iterate_answers(question, step=..., infinite=...) is called: the
\* generator exists and has not run. The question has some answers, one of
\* them chosen as the best or none; a Question object is one that
\* get_question built earlier, with answer_count 1 or 2, when the question
\* had as many answers or fewer.
InitAnswers ==
    /\ NoThreads /\ NoRates
    /\ DefaultClient /\ InitCall /\ NoPages /\ NoQuestions /\ NoNewQuestions /\ NoSession
    /\ NoVotes
    /\ a_pc = "start"
    /\ a_args \in AnswerArgs
    /\ a_total \in 0..(MaxAnswers - 1)
    /\ a_best \in {None} \cup {Some(b) : b \in 1..a_total}
    /\ a_question \in
         IF a_args.given = "id" THEN {[answers |-> <<>>, answer_count |-> 0]}
         ELSE {get_question(earlier, IF a_best # None /\ a_best[1] <= earlier
                                     THEN a_best ELSE None, n) :
                 earlier \in 0..a_total, n \in 1..2}
    /\ a_offset = 0
    /\ a_requests = <<>>
    /\ a_yields = <<>>

NextAnswers == AnswersStart \/ AnswersFetch

SpecAnswers == InitAnswers /\ [][NextAnswers]_vars

\* The same generator with a consumer that goes on asking for the next list:
\* the generator's code runs on (the waits of the loop of lines 602-604 end).
SpecAnswersLive == SpecAnswers /\ WF_vars(AnswersStart) /\ WF_vars(AnswersFetch)

\* iterate_votes(option, step=...) is called: the generator exists and has
\* not run.
InitVotes ==
    /\ NoThreads /\ NoRates
    /\ DefaultClient /\ InitCall /\ NoQuestions /\ NoNewQuestions /\ NoSession /\ NoAnswers
    /\ v_option \in Options
    /\ it_pc = "start"
    /\ it_step \in 1..MaxStep
    /\ it_p = 0
    /\ it_data = <<>>
    /\ it_fetches = <<>>
    /\ it_yields = <<>>

NextVotes == VotesFetch \/ EndAfterShortPage

SpecVotes == InitVotes /\ [][NextVotes]_vars

\* Two threads have each called _call_checked on one client that holds the
\* session of user 1: the token and the salt of the bootstrap 0, the cookie
\* 'ot' that bootstrap left, the category tree loaded.
InitThreads ==
    /\ auto_renew_token = TRUE
    /\ api_retry_attempts = 3
    /\ auth_dict = [token |-> 0, salt |-> 0]
    /\ user_id = Some(1)
    /\ is_adult \in {Some(FALSE), Some(TRUE)}
    /\ categories = Some(1)
    /\ InitCall /\ NoPages /\ NoQuestions /\ NoNewQuestions /\ NoSession
    /\ NoAnswers /\ NoVotes /\ NoRates
    /\ t_pc = [c \in Calls |-> "call"]
    /\ t_page = [c \in Calls |-> 0]
    /\ t_token = [c \in Calls |-> 0]
    /\ t_renewals = [c \in Calls |-> 0]
    /\ t_sent = <<>>
    /\ t_fetches = 0
    /\ t_overlap = FALSE
    /\ cookie_ot = 0

NextThreads ==
    \E c \in Calls :
        \/ TSend(c)
        \/ TFetch(c)
        \/ TReadCookie(c)
        \/ TSetUser(c)
        \/ TSetAuth(c)
        \/ TSetAdult(c)
        \/ TResend(c)

SpecThreads == InitThreads /\ [][NextThreads]_vars

\* The module rates is imported: _fill_rates() is called with rates empty.
InitRates ==
    /\ DefaultClient /\ InitCall /\ NoPages /\ NoQuestions /\ NoNewQuestions /\ NoSession
    /\ NoAnswers /\ NoVotes /\ NoThreads
    /\ r_pc = "loop"
    /\ r_table \in RateTables
    /\ r_i = Len(r_table)
    /\ r_rate = None
    /\ r_rates = <<>>

NextRates == FillRow \/ FillReverse

SpecRates == InitRates /\ [][NextRates]_vars

----------------------------------------------------------------------------
(* Readings of the log of one logical call *)

IsResponse(e) == e.outcome.kind = "response"
IsConnectionError(e) == e.outcome.kind = "ConnectionError"

\* The requests of the connection-retry phase (lines 134-143), in order.
RetryLog == SelectSeq(log, LAMBDA e : e.phase # "reissue")
\* The requests re-issued after a renewal (line 145), in order.
ReissueLog == SelectSeq(log, LAMBDA e : e.phase = "reissue")

\* The first response the call received, when it has received one.
HasFirstResponse == RetryLog # <<>> /\ IsResponse(RetryLog[Len(RetryLog)])
FirstResponse == RetryLog[Len(RetryLog)].outcome.body

\* The token and the salt a request carries.
Credentials(params) == [k \in DOMAIN params \cap {"token", "salt"} |-> params[k]]

\* The response is an application-level failure asking for a renewal.
IsInvalidToken(r) ==
    status_of(r) >= 400 /\ "error" \in DOMAIN r /\ r["error"] = "invalid_token"

Over == pc \in {"returned", "raised"}

----------------------------------------------------------------------------
(* C1: with api_retry_attempts = m, k connection errors in a row and then a
   response: the requests of the retry phase are the first m guarded and at
   most one more, unguarded; every one before the last failed with a
   connection error; a response ends the phase and is the result that goes
   on to inspection (so it is obtained after exactly k+1 requests, k <= m);
   a connection error on a guarded attempt keeps the call going; a
   connection error on attempt m+1 leaves the call at once as the bare
   ConnectionError; a response below 400 is what the caller is returned. *)
C1_RetryBudget ==
    LET m == api_retry_attempts
        n == Len(RetryLog)
    IN  /\ n <= m + 1
        /\ \A i \in 1..n : RetryLog[i].phase = (IF i <= m THEN "guarded" ELSE "unguarded")
        /\ \A i \in 1..(n - 1) : IsConnectionError(RetryLog[i])
        /\ sleeps = Cardinality({i \in 1..n : i <= m /\ IsConnectionError(RetryLog[i])})
        /\ (n > 0 /\ IsResponse(RetryLog[n]) /\ pc = "check")
              => result = Some(RetryLog[n].outcome.body)
        /\ (n > 0 /\ n <= m /\ IsConnectionError(RetryLog[n]))
              => (pc = "loop" /\ exc = None)
        /\ (n = m + 1 /\ IsConnectionError(RetryLog[n]))
              => (pc = "raised" /\ exc = Some(ConnectionError) /\ Len(log) = m + 1)
        /\ (n > 0 /\ IsResponse(RetryLog[n]) /\ status_of(RetryLog[n].outcome.body) < 400
                  /\ Over)
              => (pc = "returned" /\ result = Some(RetryLog[n].outcome.body))

\* m = 2, two connection errors, and the third, unguarded request is answered.
C1_Witness ==
    /\ api_retry_attempts = 2
    /\ Len(log) = 3
    /\ IsConnectionError(log[1]) /\ IsConnectionError(log[2])
    /\ log[3].phase = "unguarded" /\ IsResponse(log[3])
    /\ pc = "returned"

(* C2 as stated: a call with auto_renew_token whose first response is
   'invalid_token' (status >= 400) has, when it is over, bootstrapped exactly
   once and re-issued the request exactly once; a second 'invalid_token' ends
   it in failure. *)
C2_AsStated ==
    (Over /\ auto_renew_token /\ HasFirstResponse /\ IsInvalidToken(FirstResponse))
        => /\ bootstraps = 1
           /\ Len(ReissueLog) = 1
           /\ (IsResponse(ReissueLog[1]) /\ IsInvalidToken(ReissueLog[1].outcome.body))
                 => pc = "raised"

(* C2 amended: such a call bootstraps exactly once; it re-issues the request
   exactly once when that bootstrap returns, and not at all when the
   bootstrap raises (the call then ends with the bootstrap's exception); a
   second 'invalid_token' ends the call in failure with no second bootstrap
   and no further request. *)
C2_RenewOnce ==
    (auto_renew_token /\ HasFirstResponse /\ IsInvalidToken(FirstResponse) /\ pc # "check")
        => /\ bootstraps = 1
           /\ Len(ReissueLog) <= 1
           /\ (pc = "reissue") => (ReissueLog = <<>> /\ exc = None)
           /\ (Over /\ ReissueLog = <<>>)
                 => (pc = "raised" /\ exc \in {Some(ConnectionError), Some(AttributeError)})
           /\ (ReissueLog # <<>> /\ IsResponse(ReissueLog[1])
                 /\ IsInvalidToken(ReissueLog[1].outcome.body) /\ pc # "recheck")
                 => (pc = "raised" /\ Len(ReissueLog) = 1)

\* The renewed call is answered 'invalid_token' again and has failed.
C2_Witness ==
    /\ auto_renew_token
    /\ pc = "raised"
    /\ bootstraps = 1
    /\ Len(ReissueLog) = 1
    /\ IsResponse(ReissueLog[1])
    /\ IsInvalidToken(ReissueLog[1].outcome.body)

(* The call has ended at the raise of line 131: its last request was
   answered with a status >= 400 that no renewal recovers (the error is not
   'invalid_token', renewal is off, or the request had been re-issued). *)
EndedAtRaise ==
    /\ pc = "raised"
    /\ log # <<>>
    /\ IsResponse(log[Len(log)])
    /\ status_of(log[Len(log)].outcome.body) >= 400
    /\ \/ log[Len(log)].phase = "reissue"
       \/ ~renews(log[Len(log)].outcome.body)

(* C3: a response with status >= 400 that renewal does not recover gives the
   caller an OtvetAPIError carrying that response, and the call sends no
   further request. *)
C3_ApiError ==
    EndedAtRaise
        => exc = Some([kind |-> "OtvetAPIError", response |-> log[Len(log)].outcome.body])

(* C4: _load_main_page runs inside a checked call only for a response with
   status >= 400, error 'invalid_token' and auto_renew_token set; with
   auto_renew_token unset an 'invalid_token' response ends the call with the
   API error, no bootstrap and no re-issued request. *)
C4_RenewGuard ==
    /\ bootstraps > 0
          => (auto_renew_token /\ HasFirstResponse /\ IsInvalidToken(FirstResponse))
    /\ (~auto_renew_token /\ HasFirstResponse /\ IsInvalidToken(FirstResponse) /\ Over)
          => /\ bootstraps = 0
             /\ ReissueLog = <<>>
             /\ pc = "raised"
             /\ exc = Some([kind |-> "OtvetAPIError", response |-> FirstResponse])

(* C5: every raw request carries exactly the token and salt the client holds
   when it is sent, merged over the call site's own parameters, which are
   kept and hold no credentials; the request re-issued after a renewal
   carries the credentials the client holds after the bootstrap. *)
C5_CurrentCredentials ==
    /\ \A i \in 1..Len(log) :
          /\ Credentials(log[i].request.params) = log[i].auth
          /\ DOMAIN op.params \cap {"token", "salt"} = {}
          /\ \A k \in DOMAIN op.params : log[i].request.params[k] = op.params[k]
    /\ ReissueLog # <<>> => Credentials(ReissueLog[1].request.params) = auth_dict

\* A renewal changed the credentials, and the request was sent again.
C5_Witness ==
    /\ ReissueLog # <<>>
    /\ Credentials(ReissueLog[1].request.params) # Credentials(log[1].request.params)
    /\ Credentials(ReissueLog[1].request.params) # EmptyDict
    /\ Credentials(log[1].request.params) # EmptyDict

(* C6: one logical call makes at most one renewal and one connection-retry
   sequence: at most m + 2 raw requests, the retry phase first and at most
   one re-issued request last; a connection error on the re-issued request
   ends the call at once with that error. *)
C6_RequestBound ==
    /\ Len(log) <= api_retry_attempts + 2
    /\ bootstraps <= 1
    /\ Len(ReissueLog) <= 1
    /\ \A i \in 1..Len(log) : log[i].phase = "reissue" => i = Len(log) /\ i > 1
    /\ (ReissueLog # <<>> /\ IsConnectionError(ReissueLog[1]))
          => (pc = "raised" /\ exc = Some(ConnectionError))

\* m = 2: two failed attempts, the unguarded one answered 'invalid_token',
\* and the re-issued request fails to connect: m + 2 requests.
C6_Witness ==
    /\ api_retry_attempts = 2
    /\ Len(log) = 4
    /\ log[4].phase = "reissue"
    /\ IsConnectionError(log[4])
    /\ pc = "raised"

(* C7: a received response whose status is absent or below 400 is returned
   unchanged: it is the only response of the call, no request follows it, no
   bootstrap runs and nothing is raised; a response of the retry phase,
   whatever its status, ends that phase. *)
C7_SuccessReturned ==
    /\ (HasFirstResponse
          /\ ("status" \notin DOMAIN FirstResponse \/ FirstResponse["status"] < 400))
          => /\ pc \in {"check", "returned"}
             /\ log[Len(log)].outcome.body = FirstResponse
             /\ result = Some(FirstResponse)
             /\ bootstraps = 0
             /\ exc = None
    /\ \A i \in 1..Len(RetryLog) : IsResponse(RetryLog[i]) => i = Len(RetryLog)

\* A response without a status field has been returned after one failed attempt.
C7_Witness ==
    /\ pc = "returned"
    /\ Len(log) = 2
    /\ IsResponse(log[2])
    /\ "status" \notin DOMAIN log[2].outcome.body
    /\ "error" \in DOMAIN log[2].outcome.body

----------------------------------------------------------------------------
(* C8: in a traversal of iterate_pages with page size n over a server that
   returns at most n items per page, every fetch but the last returned
   exactly n items, the pages yielded are the fetched pages that are not
   empty, in order (so every yielded page but the last has n items and no
   empty page is yielded), the traversal is over only after a page shorter
   than n, and after such a page nothing is left but to return. *)
C8_PagesUntilShort ==
    LET n == Len(it_fetches)
    IN  /\ \A i \in 1..(n - 1) : Len(it_fetches[i].data) = it_step
        /\ \A i \in 1..n : it_fetches[i].p = (i - 1) * it_step
        /\ it_yields = SelectSeq([i \in 1..n |-> it_fetches[i].data], LAMBDA d : d # <<>>)
        /\ \A i \in 1..(Len(it_yields) - 1) : Len(it_yields[i]) = it_step
        /\ \A i \in 1..Len(it_yields) : it_yields[i] # <<>>
        /\ it_pc = "done" => (n > 0 /\ Len(it_fetches[n].data) < it_step)
        /\ (n > 0 /\ Len(it_fetches[n].data) < it_step)
              => \/ it_pc = "done"
                 \/ /\ it_pc = "yielded"
                    /\ it_data = it_fetches[n].data
                    /\ it_data # <<>>
                    /\ ~ENABLED FetchPage
        /\ (n > 0 /\ Len(it_fetches[n].data) = it_step) => it_pc = "yielded"

\* Page size 2: two full pages and a page of one item, and the generator returned.
C8_Witness ==
    /\ it_step = 2
    /\ Len(it_fetches) = 3
    /\ Len(it_yields) = 3
    /\ Len(it_yields[3]) = 1
    /\ it_pc = "done"

----------------------------------------------------------------------------
(* C9: in a traversal of iterate_questions or iterate_best_questions whose
   first page begins with the item of id A, the first request has neither
   'lastid' nor 'p', and request i + 1 has lastid = A and p = i * step; every
   request asks for step items. *)
C9_StableAnchor ==
    \A i \in 1..Len(q_requests) :
        LET params == q_requests[i].params
        IN  /\ params["n"] = q_args.step
            /\ IF i = 1
               THEN "lastid" \notin DOMAIN params /\ "p" \notin DOMAIN params
               ELSE /\ "lastid" \in DOMAIN params
                    /\ params["lastid"] = q_requests[1].data[1]
                    /\ "p" \in DOMAIN params
                    /\ params["p"] = (i - 1) * q_args.step

\* Three requests, the second page beginning with another item than the first.
C9_Witness ==
    /\ Len(q_requests) = 3
    /\ q_requests[2].data # <<>>
    /\ q_requests[2].data[1] # q_requests[1].data[1]
    /\ q_requests[3].params["lastid"] = q_requests[1].data[1]

(* C10 as stated: the traversal ends when a fetched page has fewer than step
   items: no page request follows a short page. *)
C10_AsStated ==
    \A i \in 1..(Len(q_requests) - 1) : Len(q_requests[i].data) >= q_args.step

(* C10 amended: the traversal ends exactly when a fetched page is empty: no
   request follows an empty page (an empty first page ends the generator
   with IndexError, an empty later page makes it return), every page that is
   not empty is yielded, and after a page that is not empty, short or not,
   the generator waits at the yield and fetches again when resumed. *)
C10_EndsAtEmptyPage ==
    LET n == Len(q_requests)
    IN  /\ \A i \in 1..(n - 1) : q_requests[i].data # <<>>
        /\ q_yields = SelectSeq([i \in 1..n |-> q_requests[i].data], LAMBDA d : d # <<>>)
        /\ q_pc = "done" <=> (n > 1 /\ q_requests[n].data = <<>>)
        /\ q_pc = "raised" <=> (n = 1 /\ q_requests[n].data = <<>>)
        /\ q_pc = "raised" => (q_exc = Some(IndexError) /\ q_yields = <<>>)
        /\ (n > 0 /\ q_requests[n].data # <<>>)
              => (q_pc = "yielded" /\ (n < MaxFetches => ENABLED NextPage))

\* Step 2: a page of one item was yielded and another request was made.
C10_Witness ==
    /\ q_args.step = 2
    /\ Len(q_requests) = 3
    /\ Len(q_requests[2].data) = 1
    /\ Len(q_yields) = 2
    /\ q_pc = "done"

----------------------------------------------------------------------------
(* Readings of the ticks of one generator of iterate_new_questions *)

\* The ids of a page or batch.
IdsOf(items) == {items[i] : i \in 1..Len(items)}

\* The positions of data whose item is newer than mark.
NewerAt(data, mark) == {i \in 1..Len(data) : data[i] > mark}

\* The j-th position, in page order, of an item of data newer than mark.
NewerPos(data, mark, j) ==
    CHOOSE i \in NewerAt(data, mark) : Cardinality({k \in NewerAt(data, mark) : k <= i}) = j

\* The greatest id on the pages fetched before tick i (i > 1, pages not all empty).
HighWater(i) ==
    LET seen == UNION {IdsOf(n_ticks[j].data) : j \in 1..(i - 1)}
    IN  CHOOSE m \in seen : \A x \in seen : x <= m

\* The polls: the ticks of the while loop.
Polls == 2..Len(n_ticks)

\* The batches of the ticks that had one, in order.
TickBatches ==
    SelectSeq([i \in 1..Len(n_ticks) |-> n_ticks[i].batch], LAMBDA b : b # <<>>)

----------------------------------------------------------------------------
(* C11: on every poll after the first fetch, the batch is made of exactly
   the items of the fetched page whose id is greater than the greatest id
   seen so far, in page order; a poll with no newer item yields nothing, so
   the batches yielded are the non-empty batches of the ticks, in order. *)
C11_NewerItemsOnly ==
    n_pc \in {"yielded", "loop"} =>
        /\ \A i \in Polls :
             LET t == n_ticks[i]
                 mark == HighWater(i)
             IN  /\ t.mark = Some(mark)
                 /\ Len(t.batch) = Cardinality(NewerAt(t.data, mark))
                 /\ \A j \in 1..Len(t.batch) : t.batch[j] = t.data[NewerPos(t.data, mark, j)]
        /\ n_yields = TickBatches

\* The example of the claim: pages [105,104,103], [108,107,106,105] twice.
C11_Witness ==
    /\ Len(n_ticks) = 3
    /\ n_ticks[1].data = <<105, 104, 103>>
    /\ n_ticks[2].data = <<108, 107, 106, 105>>
    /\ n_ticks[3].data = <<108, 107, 106, 105>>
    /\ n_yields = << <<105, 104, 103>>, <<108, 107, 106>> >>
    /\ n_pc = "loop"

----------------------------------------------------------------------------
\* The questions of the burst before poll i that are older than its page.
LostAt(i) == (n_ticks[i - 1].top + 1)..(n_ticks[i].top - n_args.step)

(* C12: when more questions than the page size were asked between two
   polls, the batch of the next poll is the page-size newest questions, and
   the older questions of that burst are in no batch of that or any later
   poll. *)
C12_BurstLoss ==
    \A i \in Polls :
        n_ticks[i].burst > n_args.step =>
            /\ n_ticks[i].batch = [k \in 1..n_args.step |-> n_ticks[i].top - k + 1]
            /\ \A j \in i..Len(n_ticks) : IdsOf(n_ticks[j].batch) \cap LostAt(i) = {}
            /\ \A b \in 1..Len(n_yields) : IdsOf(n_yields[b]) \cap LostAt(i) = {}

\* Page size 3 and 5 new questions: 3 are yielded, 2 are lost, and a later
\* poll has yielded again.
C12_Witness ==
    /\ Len(n_ticks) = 3
    /\ n_args.step = 3
    /\ n_ticks[2].burst = 5
    /\ Len(n_ticks[2].batch) = 3
    /\ Cardinality(LostAt(2)) = 2
    /\ n_ticks[3].batch # <<>>

----------------------------------------------------------------------------
(* C13: without include_first_batch the first page is not yielded, but the
   id of its first item is the mark the first poll compares with, and no
   item of the first page is in a batch of a later tick; with
   include_first_batch the first page is the first batch, whole. *)
C13_FirstBatch ==
    n_pc \in {"yielded", "loop"} =>
        LET first == n_ticks[1].data
        IN  /\ IF Len(n_ticks) = 1 THEN n_lastid = Some(first[1])
                                   ELSE n_ticks[2].mark = Some(first[1])
            /\ \A i \in Polls : IdsOf(n_ticks[i].batch) \cap IdsOf(first) = {}
            /\ IF n_args.include_first_batch
               THEN /\ n_yields # <<>>
                    /\ n_yields[1] = first
                    /\ \A b \in 2..Len(n_yields) : IdsOf(n_yields[b]) \cap IdsOf(first) = {}
               ELSE \A b \in 1..Len(n_yields) : IdsOf(n_yields[b]) \cap IdsOf(first) = {}

\* Without include_first_batch, a later page that still shows items of the
\* first page has yielded its newer items only.
C13_Witness ==
    /\ ~n_args.include_first_batch
    /\ Len(n_ticks) >= 2
    /\ Len(n_yields) = 1
    /\ IdsOf(n_ticks[2].data) \cap IdsOf(n_ticks[1].data) # {}
    /\ n_yields[1] # n_ticks[2].data

----------------------------------------------------------------------------
(* C14: every fetch of the loop starts at least delay after the start of
   the fetch before it, the first fetch included; the sleep before it is
   max(0, previous start + delay - now), so none after a fetch that took
   delay or more. *)
C14_PollSpacing ==
    \A i \in Polls :
        LET t == n_ticks[i]
            prev == n_ticks[i - 1]
            due == prev.start + n_args.delay
        IN  /\ t.start >= due
            /\ t.slept = (IF due > t.woke THEN due - t.woke ELSE 0)
            /\ t.start = t.woke + t.slept
            /\ prev.done - prev.start >= n_args.delay => t.slept = 0

\* A fetch longer than delay followed by a fetch with no sleep, and a fetch
\* shorter than delay followed by a sleep.
C14_Witness ==
    /\ Len(n_ticks) = 3
    /\ n_ticks[1].done - n_ticks[1].start > n_args.delay
    /\ n_ticks[2].slept = 0
    /\ n_ticks[2].done - n_ticks[2].start < n_args.delay
    /\ n_ticks[3].slept > 0

----------------------------------------------------------------------------
(* Readings of the public operations *)

\* The client holds a token and a salt, and a user id.
Authenticated == DOMAIN auth_dict = {"token", "salt"} /\ user_id # None

\* The client holds no token, no salt and no user id.
Anonymous == auth_dict = EmptyDict /\ user_id = None

\* The last step ran _load_main_page.
Bootstrapped == s_last.cause \in {"authenticate", "renewal", "is_adult", "categories"}

----------------------------------------------------------------------------
(* C15: after any sequence of construction, restore from an exported
   snapshot, login, bootstrap and renewal, the credential map holds both a
   token and a salt or neither; the two are of one bootstrap (the server
   issues salt k with token k), so none was updated without the other. *)
C15_TokenAndSalt ==
    /\ DOMAIN auth_dict \in {{}, {"token", "salt"}}
    /\ auth_dict # EmptyDict => auth_dict["token"] = auth_dict["salt"]

\* A renewal replaced token 1 and salt 1, restored from a snapshot, by token
\* 2 and salt 2 and then failed at the is_adult marker.
C15_Witness ==
    /\ s_last.cause = "renewal"
    /\ s_last.saw = "no_adult"
    /\ s_last.changed
    /\ auth_dict = [token |-> 2, salt |-> 2]

----------------------------------------------------------------------------
(* C16: after any sequence of login, bootstrap and renewal operations,
   user_id is None exactly when the client holds no token and no salt, and
   a number exactly when it holds both. *)
C16_UserIdWithSession ==
    /\ user_id = None <=> auth_dict = EmptyDict
    /\ user_id # None <=> DOMAIN auth_dict = {"token", "salt"}
    /\ user_id # None => user_id[1] \in Nat

\* A client that was authenticated lost its session in a bootstrap that
\* found no cookie.
C16_Witness ==
    /\ s_last.cause = "is_adult"
    /\ s_last.saw = "no_cookie"
    /\ s_last.changed
    /\ user_id = None

----------------------------------------------------------------------------
\* The step changes the token, the salt or the user id.
SessionChanges == auth_dict' # auth_dict \/ user_id' # user_id

(* C17, as stated: the token, the salt and the user id change only through
   the restore at construction, a login, or a renewal inside a checked
   call. *)
C17_AsStated ==
    [][SessionChanges => s_last'.cause \in {"restore", "authenticate", "renewal"}]_vars

(* C17: the token, the salt and the user id change only in a step that runs
   _load_main_page: a login, a renewal after an 'invalid_token' response
   with auto_renew_token, a read of is_adult while the flag is unknown and
   the client has a user id, or a read of categories (in the property or
   inside a listing call) while no category tree is built. Every other step
   leaves them unchanged: a restore from the client's own snapshot, a read
   of is_adult with the flag known or without a user id, a read of
   categories with the tree built, a listing call with the tree built that
   receives no 'invalid_token' response. *)
C17_SessionFrame ==
    [][/\ SessionChanges => Bootstrapped'
       /\ s_last'.cause = "renewal" => s_last'.invalid_token /\ auto_renew_token
       /\ s_last'.cause = "is_adult" => is_adult = None /\ user_id # None
       /\ s_last'.cause = "categories" => categories = None \/ categories = Some(0)
       /\ s_last'.changed <=> SessionChanges
      ]_vars

\* A listing call on a client with the cookie 'Mpop' that received no
\* 'invalid_token' response bootstrapped for the category tree and changed
\* the session.
C17_Witness ==
    /\ s_last.name = "get_questions_page"
    /\ cookie_mpop # None
    /\ ~s_last.invalid_token
    /\ s_last.cause = "categories"
    /\ s_last.items = 1
    /\ s_last.changed

----------------------------------------------------------------------------
(* C18: a bootstrap that gets to the test of the cookie 'ot' and finds none
   does not raise and leaves the client anonymous: no token, no salt, no
   user id and no adult flag, whatever they were. *)
C18_AnonymousBootstrap ==
    Bootstrapped /\ s_last.saw = "no_cookie" =>
        /\ s_last.load_raised = None
        /\ auth_dict = EmptyDict
        /\ user_id = None
        /\ is_adult = None

\* The renewal of an authenticated client found no cookie.
C18_Witness ==
    /\ s_last.cause = "renewal"
    /\ s_last.saw = "no_cookie"
    /\ s_last.changed
    /\ s_last.load_raised = None

----------------------------------------------------------------------------
\* The last step ran a bootstrap that found the cookie but not the salt or
\* not the id marker.
MarkerMissing == Bootstrapped /\ s_last.saw \in {"no_salt", "no_id"}

(* C19: a bootstrap of a page with the cookie but without the salt or id
   marker fails with an error of the kind ParseError, which leaves the
   operation as it is: the main page is not fetched again, and a renewal
   that fails so is not followed by the re-issue of the request. *)
C19_ParseError ==
    MarkerMissing =>
        /\ s_last.load_raised = Some([kind |-> "ParseError"])
        /\ s_last.raised = s_last.load_raised
        /\ s_pc = "idle"
        /\ s_last.cause = "renewal" => ~s_last.reissued

----------------------------------------------------------------------------
\* e is an OtvetAuthError whose login begins with the login given.
CarriesLogin(e) ==
    /\ e # None
    /\ e[1].kind = "OtvetAuthError"
    /\ SubSeq(e[1].login, 1, Len(s_last.login)) = s_last.login

(* C20, as stated: authenticate posts once and bootstraps once; it raises
   OtvetAuthError with the login exactly when user_id is None afterwards,
   and otherwise returns with the client authenticated. *)
C20_AsStated ==
    s_last.name = "authenticate" =>
        /\ s_last.posts = 1
        /\ s_last.loads = 1
        /\ CarriesLogin(s_last.raised) <=> user_id = None
        /\ ~CarriesLogin(s_last.raised) => s_last.raised = None /\ Authenticated

(* C20: authenticate posts the login form once; if the post raises, nothing
   else happens; otherwise it runs _load_main_page exactly once. An
   exception of that bootstrap leaves authenticate as it is. If the
   bootstrap returns, authenticate raises OtvetAuthError exactly when
   user_id is None, carrying the login with '@mail.ru' appended if it had
   no '@', and otherwise returns with token, salt, user id and adult flag
   set. The outcome is that of the page read, whatever the client held. *)
C20_Authenticate ==
    s_last.name = "authenticate" =>
        /\ s_last.posts = 1
        /\ IF s_last.loads = 0
           THEN s_last.raised = Some(ConnectionError) /\ ~s_last.changed
           ELSE /\ s_last.loads = 1
                /\ s_last.load_raised # None => s_last.raised = s_last.load_raised
                /\ s_last.load_raised = None =>
                     /\ s_last.saw \in {"no_cookie", "all"}
                     /\ s_last.saw = "no_cookie" <=> user_id = None
                     /\ IF user_id = None
                        THEN /\ Anonymous
                             /\ CarriesLogin(s_last.raised)
                             /\ s_last.raised[1].login =
                                  (IF "@" \in {s_last.login[i] : i \in 1..Len(s_last.login)}
                                   THEN s_last.login
                                   ELSE s_last.login \o <<"@", "mail.ru">>)
                        ELSE s_last.raised = None /\ Authenticated /\ is_adult # None

\* A login without '@' on an authenticated client failed: the page had no
\* cookie.
C20_Witness ==
    /\ s_last.name = "authenticate"
    /\ s_last.login = <<"user">>
    /\ s_last.raised = Some(OtvetAuthError(<<"user", "@", "mail.ru">>))
    /\ s_last.changed
    /\ user_id = None

----------------------------------------------------------------------------
(* C21: constructing a client from a snapshot installs the token, the salt
   and the user id of the snapshot and sets the cookie 'Mpop' to the
   snapshot's, with no network request: no main page is fetched, no login
   posted, no API method requested, and the adult flag stays unknown. *)
C21_RestoreIsLocal ==
    s_last.name = "restore" =>
        LET data == json_loads(s_last.snapshot)
        IN  /\ auth_dict = data.dict
            /\ user_id = data.user_id
            /\ cookie_mpop = data.cookie
            /\ s_last.loads = 0 /\ s_last.posts = 0 /\ s_last.sent = <<>>
            /\ is_adult = None

\* The snapshot of an authenticated client with the cookie was restored.
C21_Witness ==
    /\ s_last.name = "restore"
    /\ s_last.snapshot = [dict |-> [token |-> <<"string", 2>>, salt |-> <<"string", 2>>],
                          user_id |-> <<"number", 2>>, cookie |-> <<"string", 1>>]
    /\ auth_dict = [token |-> 2, salt |-> 2]
    /\ user_id = Some(2)
    /\ cookie_mpop = Some(1)

----------------------------------------------------------------------------
(* C22: a client restored from the auth_info of an authenticated client
   holds the token, the salt, the user id and the cookie 'Mpop' of that
   client, and its own auth_info equals the snapshot it was made from. *)
C22_SnapshotRoundTrip ==
    [][s_last'.name = "restore" /\ Authenticated =>
         /\ auth_dict' = auth_dict
         /\ user_id' = user_id
         /\ cookie_mpop' = cookie_mpop
         /\ auth_info' = auth_info
         /\ auth_info' = s_last'.snapshot
      ]_vars

\* A client restored from the snapshot of an authenticated client: it has
\* the session and the cookie of the snapshot, and no category tree.
C22_Witness ==
    /\ s_last.name = "restore"
    /\ Authenticated
    /\ cookie_mpop # None
    /\ json_loads(auth_info).user_id = user_id
    /\ categories = None

----------------------------------------------------------------------------
(* C23: once a category tree has been built, no later bootstrap of the same
   client rebuilds or replaces it, whatever the tree contains. *)
C23_TreeBuiltOnce ==
    [][categories # None /\ s_last'.name # "restore" => categories' = categories]_vars

----------------------------------------------------------------------------
(* Readings of the operations that check their arguments *)

\* The places of a sequence.
Range(seq) == {seq[i] : i \in 1..Len(seq)}

\* The last operation was left by OtvetArgumentError.
ArgumentError == s_last.raised = Some(OtvetArgumentError)

\* edit_question was last called with more new poll options than the poll has.
TooManyOptions ==
    /\ s_last.name = "edit_question"
    /\ s_last.args.new_options # None
    /\ s_last.args.new_options[1] > s_last.args.options

\* C24 as stated: every OtvetArgumentError is raised before any network
\* request of its operation is sent: no API request and no fetch of the main
\* page precedes it.
C24_AsStated ==
    ArgumentError => s_last.sent = <<>> /\ s_last.loads = 0

\* C24 (amended): every OtvetArgumentError ends its operation, and is raised
\* before the API request the operation exists to send. Nothing at all is
\* requested before it where a user id or authentication is missing and
\* where a question object is edited; an unknown category is raised after
\* the one main-page fetch that builds the category tree; a question given
\* by id is fetched, once or re-issued after a renewal, before it is found
\* not editable or its poll too short. An edit with more new options than
\* the poll has never sends '/v2/editqst'.
C24_ArgumentErrors ==
    /\ ArgumentError =>
         /\ s_pc = "idle"
         /\ s_last.site \in {"ensure_authenticated", "normalize_user", "normalize_category",
                             "edit_token", "poll_options"}
         /\ s_last.site \in {"ensure_authenticated", "normalize_user"} =>
              s_last.sent = <<>> /\ s_last.loads = 0
         /\ s_last.site = "normalize_category" =>
              s_last.sent = <<>> /\ s_last.loads = 1
         /\ s_last.site \in {"edit_token", "poll_options"} =>
              /\ "/v2/editqst" \notin Range(s_last.sent)
              /\ s_last.args.given = "object" => s_last.sent = <<>> /\ s_last.loads = 0
              /\ s_last.args.given = "id" =>
                   s_last.sent \in {<<"/v2/question">>, <<"/v2/question", "/v2/question">>}
    /\ TooManyOptions => "/v2/editqst" \notin Range(s_last.sent)

\* A question given by id, fetched, was found to have fewer poll options
\* than the edit brings.
C24_Witness ==
    /\ ArgumentError
    /\ s_last.site = "poll_options"
    /\ s_last.args.given = "id"
    /\ s_last.sent = <<"/v2/question">>

\* set_is_adult_flag last returned, on an authenticated client that held
\* the adult flag False, and without renewing the session on its way.
FlagSet ==
    /\ s_last.name = "set_is_adult_flag"
    /\ s_last.raised = None
    /\ s_last.args = Some(FALSE)
    /\ s_last.loads = 0
    /\ Authenticated

\* C28: after set_is_adult_flag() has returned on an authenticated client
\* whose is_adult was false, the next read of the property is_adult gives
\* True.
C28_AdultAfterFlag ==
    [][FlagSet /\ s_last'.name = "is_adult" => s_last'.result = Some(TRUE)]_vars

\* get_user last received a successful '/v2/stats_ex' response.
ProfileReceived == s_last.name = "get_user" /\ DOMAIN s_last.args = {"expert", "maillogin"}

\* C29: for every successful '/v2/stats_ex' response get_user returns a
\* profile: a MyUserProfile when the response has the own-profile fields, a
\* BrandExpertProfile for an expert, a UserProfile otherwise.
C29_ProfileKinds ==
    ProfileReceived =>
        /\ s_last.raised = None
        /\ s_last.result = Some(IF s_last.args.maillogin THEN "MyUserProfile"
                                ELSE IF s_last.args.expert THEN "BrandExpertProfile"
                                ELSE "UserProfile")

----------------------------------------------------------------------------
(* Readings of the one-shot paged traversals *)

\* s is t without its last element.
AllButLast(s, t) == t # <<>> /\ s = SubSeq(t, 1, Len(t) - 1)

\* C25: every step is one request of the consumer, and it either starts a
\* traversal anew, with nothing fetched and nothing yielded, or goes forward
\* in the one at hand: it fetches at most one page, at offset 0 in a new
\* traversal and step further than the last fetch otherwise, keeps what was
\* fetched and yielded before in its order, and yields nothing but the page
\* it has just fetched.
C25_LazyForwardOnly ==
    [][IF it_pc' = "start"
       THEN it_fetches' = <<>> /\ it_yields' = <<>> /\ it_p' = 0
       ELSE /\ it_fetches' = it_fetches \/ AllButLast(it_fetches, it_fetches')
            /\ it_yields' = it_yields \/ AllButLast(it_yields, it_yields')
            /\ it_fetches' # it_fetches =>
                 it_fetches'[Len(it_fetches')].p =
                     IF it_fetches = <<>> THEN 0
                     ELSE it_fetches[Len(it_fetches)].p + it_step
            /\ it_yields' # it_yields =>
                 /\ it_fetches' # it_fetches
                 /\ it_yields'[Len(it_yields')] = it_fetches'[Len(it_fetches')].data
      ]_vars

\* A traversal with page size 2 is at the yield of its second full page.
C25_Witness ==
    /\ it_pc = "yielded"
    /\ it_step = 2
    /\ Len(it_fetches) = 2
    /\ it_fetches[2].p = 2
    /\ Len(it_yields) = 2
    /\ Len(it_data) = 2

----------------------------------------------------------------------------
(* Readings of iterate_answers and iterate_votes *)

\* The lists of a list, one after the other.
RECURSIVE Flatten(_)
Flatten(lists) ==
    IF lists = <<>> THEN <<>> ELSE lists[1] \o Flatten(Tail(lists))

\* The requests of get_more_answers_page made so far.
MoreAnswers == SelectSeq(a_requests, LAMBDA r : r.method = "/v2/moreanswers")

\* The answers yielded before the request r was made.
YieldedBefore(r) == Range(SubSeq(Flatten(a_yields), 1, r.yielded))

\* C26: the answers the question object holds are yielded first; every
\* request of get_more_answers_page asks for step answers from the offset
\* that is the number of answers yielded before it; every position of the
\* list below the ones it asks for was yielded before it (none is skipped)
\* and none of the answers it returns was (none is fetched twice).
C26_AnswerOffsets ==
    /\ a_pc \notin {"none", "start"} /\ a_question.answers # <<>> =>
         a_yields # <<>> /\ a_yields[1] = a_question.answers
    /\ \A i \in 1..Len(MoreAnswers) :
         LET r == MoreAnswers[i]
         IN  /\ r.n = a_args.step
             /\ r.p = r.yielded
             /\ \A q \in 1..r.p : q \in YieldedBefore(r)
             /\ \A k \in 1..Len(r.data) : r.data[k] \notin YieldedBefore(r)

\* C27: the requests of iterate_votes(option, step=s) ask '/v2/whovoted'
\* for s votes of the option at the offsets 0, s, 2s, ..., in that order, and
\* the pages yielded are the fetched ones that are not empty.
C27_VotesRequests ==
    /\ \A i \in 1..Len(it_fetches) :
         it_fetches[i].request =
             [method |-> "/v2/whovoted",
              params |-> [optid |-> v_option, n |-> it_step, p |-> (i - 1) * it_step]]
    /\ it_yields = SelectSeq([i \in 1..Len(it_fetches) |-> it_fetches[i].data],
                             LAMBDA d : d # <<>>)

----------------------------------------------------------------------------
(* Readings of iterate_new_questions over pages in any order *)

\* lastid after tick i (Optional): the mark the next tick found, or lastid.
MarkAfter(i) == IF i < Len(n_ticks) THEN n_ticks[i + 1].mark ELSE n_lastid

\* The mark has changed at tick i: at the first fetch, and at a poll that
\* had a batch.
Marking(i) == IF i = 1 THEN n_ticks[1].data # <<>> ELSE n_ticks[i].batch # <<>>

\* The mark never went down; after every tick that set it, it was the
\* greatest id on the pages fetched until then; no id is in two batches.
MarkIsHighWater ==
    /\ \A i \in 1..Len(n_ticks) :
         n_ticks[i].mark # None /\ MarkAfter(i) # None => n_ticks[i].mark[1] <= MarkAfter(i)[1]
    /\ \A i \in 1..Len(n_ticks) : Marking(i) => MarkAfter(i) = Some(HighWater(i + 1))
    /\ \A i, j \in 1..Len(n_ticks) :
         i < j => IdsOf(n_ticks[i].batch) \cap IdsOf(n_ticks[j].batch) = {}

\* Every page fetched so far lists the greater id first.
NewestFirst ==
    \A i \in 1..Len(n_ticks) :
      \A k \in 1..(Len(n_ticks[i].data) - 1) : n_ticks[i].data[k] > n_ticks[i].data[k + 1]

\* C30 as stated: whatever pages the server returns, the high-water mark
\* never decreases, after a yielding tick it is the largest id seen so far,
\* and no question id is yielded in two batches.
C30_AsStated == MarkIsHighWater

\* C30 (amended): as long as every page the server has returned lists the
\* greater id first, the high-water mark has never decreased, after a
\* yielding tick it is the largest id seen so far, and no question id was
\* yielded in two batches.
C30_MarkOverSortedPages == NewestFirst => MarkIsHighWater

\* Two batches were yielded off pages that list the greater id first, the
\* second page overlapping the first.
C30_Witness ==
    /\ NewestFirst
    /\ Len(n_yields) = 2
    /\ Len(n_ticks) = 2
    /\ n_ticks[1].data = <<2, 1>>
    /\ n_ticks[2].data = <<3, 2>>
    /\ n_yields[2] = <<3>>
    /\ n_lastid = Some(3)

----------------------------------------------------------------------------
(* Readings of the session across a checked call and a bootstrap *)

\* This step is a checked call that returns its response: the whole of
\* set_is_adult_flag, or the edit request of edit_question.
CallServed ==
    \/ s_last'.name = "set_is_adult_flag" /\ s_last'.raised = None
    \/ s_pc = "edit_call" /\ s_pc' = "edit_build"

\* C31 as stated: a client authenticated as user U before a checked call
\* that returns its response is authenticated as U after it.
C31_AsStated ==
    [][Authenticated /\ CallServed => user_id' = user_id /\ DOMAIN auth_dict' = {"token", "salt"}]_vars

\* C31 (amended): a client authenticated as user U before a checked call
\* that returns its response holds the same token, salt and user id after
\* it, unless the call renewed the session: its first response said
\* 'invalid_token' with auto_renew_token on, and the request was re-issued.
\* The session is then the one of the main page read.
C31_SessionKeptWithoutRenewal ==
    [][Authenticated /\ CallServed =>
         \/ auth_dict' = auth_dict /\ user_id' = user_id /\ is_adult' = is_adult
         \/ /\ s_last'.invalid_token /\ auto_renew_token /\ s_last'.reissued
            /\ s_last'.cause = "renewal" /\ s_last'.load_raised = None
            /\ s_last'.saw \in {"all", "no_cookie"}
            /\ s_last'.saw = "no_cookie" => auth_dict' = EmptyDict /\ user_id' = None
      ]_vars

\* set_is_adult_flag returned on a client that held an adult flag, and so a
\* session; the renewal on its way left the client anonymous.
C31_Witness ==
    /\ s_last.name = "set_is_adult_flag"
    /\ s_last.raised = None
    /\ s_last.args # None
    /\ s_last.reissued
    /\ Anonymous

\* C32: a bootstrap that fails while extracting a value from the page leaves
\* token, salt, user id and the adult flag as they were.
C32_FailedBootstrapKeepsSession ==
    [][s_last'.name \in {"authenticate", "is_adult", "categories"}
         /\ s_last'.load_raised = Some(AttributeError)
       => auth_dict' = auth_dict /\ user_id' = user_id /\ is_adult' = is_adult]_vars

----------------------------------------------------------------------------
(* Readings of the traversals over an empty or an unchanging listing *)

\* C33: when the first page fetched by iterate_questions or
\* iterate_best_questions is empty, the generator yields nothing and ends
\* normally: it raises nothing.
C33_EmptyFirstPage ==
    (q_requests # <<>> /\ q_requests[1].data = <<>>) =>
        /\ q_pc = "done"
        /\ q_exc = None
        /\ q_yields = <<>>

\* A one-shot traversal is created: iterate_pages(get_page, step), or
\* iterate_questions / iterate_best_questions.
InitTraversals == InitPages \/ InitQuestions

NextTraversals == NextPages \/ NextQuestions

SpecTraversals == InitTraversals /\ [][NextTraversals]_vars

\* The listings of at least one item a bounded traversal can go through.
FixedListings == UNION { [1..n -> Items] : n \in 1..(MaxStep * MaxFetches) }

\* The items of listing at the positions offset .. offset + n - 1 (from 0).
Slice(listing, offset, n) ==
    IF offset >= Len(listing) THEN <<>>
    ELSE SubSeq(listing, offset + 1,
                IF offset + n <= Len(listing) THEN offset + n ELSE Len(listing))

\* Every page iterate_pages has fetched is the slice of listing it asked for.
PagesServe(listing) ==
    /\ it_pc # "none"
    /\ \A i \in 1..Len(it_fetches) :
         it_fetches[i].data = Slice(listing, it_fetches[i].p, it_step)

\* Every page the anchored traversal has fetched is the slice of listing it
\* asked for (a request without p asks from the start).
QuestionsServe(listing) ==
    /\ q_pc # "none"
    /\ \A i \in 1..Len(q_requests) :
         LET params == q_requests[i].params
         IN  q_requests[i].data =
                Slice(listing, IF "p" \in DOMAIN params THEN params["p"] ELSE 0, params["n"])

\* C34: over a listing of at least one item that the server serves slice by
\* slice, the pages a one-shot traversal has yielded, one after the other,
\* are the items of the listing at the positions fetched so far, and the
\* whole listing, each item once and in order, when the traversal has ended;
\* the traversal raises nothing.
C34_TraversalYieldsListing ==
    \A listing \in FixedListings :
        /\ PagesServe(listing) =>
             /\ Flatten(it_yields) = Slice(listing, 0, Len(it_fetches) * it_step)
             /\ it_pc = "done" => Flatten(it_yields) = listing
        /\ QuestionsServe(listing) =>
             /\ q_pc # "raised"
             /\ Flatten(q_yields) = Slice(listing, 0, Len(q_requests) * q_args.step)
             /\ q_pc = "done" => Flatten(q_yields) = listing

\* A listing of four items was traversed to its end in pages of two.
C34_Witness ==
    /\ it_pc = "done"
    /\ it_step = 2
    /\ Len(it_fetches) = 3
    /\ Len(Flatten(it_yields)) = 4
    /\ \E listing \in FixedListings : PagesServe(listing) /\ Len(listing) = 2 * it_step

----------------------------------------------------------------------------
(* Readings of iterate_answers: what is yielded in the end, and when it ends *)

\* The answers yielded so far, in the order they were yielded.
Yielded == Flatten(a_yields)

\* All the requests of get_more_answers_page the bound allows were made.
FetchesSpent == Len(MoreAnswers) >= MaxAnswerFetches

\* C35: with infinite=True over an append-only list of answers, the answers
\* yielded are at any time the first answers of the list, each once and in
\* the list's order (none skipped, none repeated), and every answer the list
\* holds is eventually yielded, as long as the requests are answered and the
\* consumer goes on asking.
C35_EveryAnswerOnceInOrder ==
    /\ [](a_args.infinite => Yielded = Positions(1, Len(Yielded)))
    /\ \A k \in 1..MaxAnswers :
         (a_pc # "none" /\ a_args.infinite /\ k <= a_total)
            ~> (k \in Range(Yielded) \/ a_pc = "raised" \/ FetchesSpent)

\* The generator was left by a return.
Returned == a_pc = "done"

\* The last request made is one of get_more_answers_page, its page is
\* shorter than step, and every such page before it was full.
EndedAtShortPage ==
    /\ MoreAnswers # <<>>
    /\ a_requests[Len(a_requests)].method = "/v2/moreanswers"
    /\ \A i \in 1..Len(MoreAnswers) :
         (Len(MoreAnswers[i].data) < a_args.step) <=> (i = Len(MoreAnswers))

\* The early return of line 584: a Question object that reports no answer.
ReturnedAtOnce ==
    /\ a_args.given = "question"
    /\ a_question.answer_count = 0
    /\ a_requests = <<>>

\* Every request of get_more_answers_page asks from the offset reached.
PollsAtOffset == \A i \in 1..Len(MoreAnswers) : MoreAnswers[i].p = MoreAnswers[i].yielded

\* With infinite=False the generator ends, as long as requests are answered
\* and the bound on requests is not reached.
AnswersTerminate ==
    (a_pc # "none" /\ ~a_args.infinite) ~> (Returned \/ a_pc = "raised" \/ FetchesSpent)

\* C36 as stated: with infinite=False the generator always ends; it has
\* sent no request when the Question object reports answer_count 0, and
\* otherwise it ends after the first fetched page shorter than step. With
\* infinite=True it never returns and polls at the offset reached.
C36_AsStated ==
    /\ AnswersTerminate
    /\ [](~a_args.infinite /\ Returned =>
            \/ ReturnedAtOnce
            \/ /\ a_requests # <<>>
               /\ Len(a_requests[Len(a_requests)].data) < a_args.step)
    /\ [](a_args.infinite => ~Returned /\ PollsAtOffset)

\* C36 (amended): with infinite=False the generator always ends: at once and
\* without a request when the Question object reports answer_count 0;
\* without any request of get_more_answers_page when the answers the question
\* holds are as many as it reports; otherwise after the first page of
\* get_more_answers_page shorter than step. With infinite=True it never
\* returns and polls at the offset reached.
C36_AnswersEnd ==
    /\ AnswersTerminate
    /\ [](~a_args.infinite /\ Returned =>
            \/ ReturnedAtOnce
            \/ MoreAnswers = <<>> /\ a_offset >= a_question.answer_count
            \/ EndedAtShortPage)
    /\ [](a_args.infinite => ~Returned /\ PollsAtOffset)

\* A question given by id whose first step answers are all it has: the
\* generator returned after one full page and no other request.
C36_Witness ==
    /\ ~a_args.infinite /\ Returned
    /\ a_args.given = "id"
    /\ Len(a_requests) = 1
    /\ Len(a_requests[1].data) = a_args.step

----------------------------------------------------------------------------
(* Readings of the checked call: the backoff sleeps *)

\* The guarded attempts of the requests sent that met a connection failure.
FailedGuarded(sent) ==
    {i \in 1..Len(sent) : sent[i].phase = "guarded" /\ sent[i].outcome.kind = "ConnectionError"}

\* C37: in a checked call the sleeps are as many as the connection failures
\* of its guarded attempts, which are among the first api_retry_attempts
\* requests; a step that sends a request sleeps exactly when that request
\* is a guarded attempt that met a connection failure (the sleep comes after
\* the failure and before the next attempt): a received response, the
\* unguarded attempt and the request re-issued after a renewal bring no
\* sleep.
C37_SleepAfterEachFailure ==
    [][/\ sleeps' = Cardinality(FailedGuarded(log'))
       /\ FailedGuarded(log') \subseteq 1..api_retry_attempts
       /\ Len(log') > Len(log) =>
            LET e == log'[Len(log')]
            IN  sleeps' = sleeps + (IF e.phase = "guarded" /\ e.outcome.kind = "ConnectionError"
                                    THEN 1 ELSE 0)
      ]_vars

\* A call slept after each of two connection failures, then renewed the
\* session and re-issued its request.
C37_Witness ==
    /\ sleeps = 2
    /\ log # <<>>
    /\ log[Len(log)].phase = "reissue"

----------------------------------------------------------------------------
(* Readings of two interleaved checked calls *)

\* The token and the salt a request carries were issued by the same fetch
\* of the main page (both by the bootstrap 0 at first).
SameBootstrap(request) == request.auth["token"] = request.auth["salt"]

\* Each of the two calls has run _load_main_page at most once.
RenewsAtMostOnce == \A c \in Calls : t_renewals[c] <= 1

\* C38 as stated: whatever the interleaving of the two calls and of their
\* renewals, every request sent carries a token and a salt of the same
\* bootstrap, and each call renews at most once.
C38_AsStated ==
    /\ \A i \in 1..Len(t_sent) : SameBootstrap(t_sent[i])
    /\ RenewsAtMostOnce

\* C38 (amended): each call renews at most once; every request carries a
\* token that is not older than its salt; and token and salt are of the same
\* bootstrap as long as no call has fetched the main page while the other
\* one, its page fetched, had yet to read the cookie (in particular when at
\* most one of the two calls renews).
C38_PairedUnlessOverlap ==
    /\ RenewsAtMostOnce
    /\ \A i \in 1..Len(t_sent) : t_sent[i].auth["token"] >= t_sent[i].auth["salt"]
    /\ ~t_overlap => \A i \in 1..Len(t_sent) : SameBootstrap(t_sent[i])
    /\ t_fetches <= 1 => ~t_overlap

\* Both calls renewed, one after the other, and the second re-issued its
\* request with the token and the salt of its own bootstrap.
C38_Witness ==
    /\ ~t_overlap
    /\ t_fetches = 2
    /\ \E i \in 1..Len(t_sent) :
         /\ t_sent[i].phase = "reissue"
         /\ t_sent[i].auth = [token |-> 2, salt |-> 2]

----------------------------------------------------------------------------
(* Readings of the table of levels *)

\* The name of the rate of the least (min_points, min_kpd) among candidates,
\* a set of rates; None when there is none.
LeastOf(candidates) ==
    IF candidates = {} THEN None
    ELSE Some((CHOOSE r \in candidates : \A o \in candidates : ~key_less(o, r)).name)

\* The rates of the table filled.
FilledRates == Range(r_rates)

\* C39: once the table _RATES is filled, for every rate r of it r.next is
\* the rate of the least (min_points, min_kpd) among those whose min_points
\* is greater than r's (None for the top level), and r.next_by_kpd the rate
\* of the same min_points and the next higher min_kpd (None when there is
\* none).
C39_NextLevels ==
    (r_pc = "done" /\ r_table = RATES) =>
        \A r \in FilledRates :
            /\ r.next = LeastOf({o \in FilledRates : o.min_points > r.min_points})
            /\ r.next_by_kpd = LeastOf({o \in FilledRates : /\ o.min_points = r.min_points
                                                           /\ o.min_kpd > r.min_kpd})

====
